---- MODULE Spec2Model ----
(***************************************************************************)
(* A state-machine model of the retrieval core of mik-manga:               *)
(*   - RequestManager (src/core/manager/request.py): the semaphore-gated,  *)
(*     retrying HTTP client;                                               *)
(*   - BaseFindEngine / MultiMangaFindEngine (src/core/abstract/find.py,   *)
(*     src/spider/multi_manga/find.py): the paginated search session;      *)
(*   - BaseSpider.get_manga_full (src/core/abstract/spider.py): the        *)
(*     concurrent chapter aggregation.                                     *)
(* Each component has its own specification (SpecFetch, SpecFind, SpecAgg) *)
(* over the shared variable tuple; a component's actions leave the other   *)
(* components' variables unchanged.                                        *)
(*                                                                         *)
(* Scheduling is asyncio's: one event loop, a coroutine runs without       *)
(* interruption from one real suspension to the next.  Awaiting an         *)
(* uncontended asyncio.Lock or a free asyncio.Semaphore does not suspend,  *)
(* so an action below is the code between two real suspensions (a network  *)
(* await, a sleep, a wait in the semaphore queue).                         *)
(***************************************************************************)
EXTENDS Integers, Sequences, FiniteSets, Bags, TLC

VARIABLES
    \* ---- RequestManager ----
    max_concurrents,   \* self.max_concurrents (effective, after __init__)
    max_retries,       \* self.max_retries (effective, after __init__)
    sem_value,         \* self.semaphore._value: free slots
    sem_waiters,       \* self.semaphore._waiters: the callers inside acquire(), in
                       \* the order they came, woken or not
    rpc,               \* position of each request() call: "idle", "waiting" (in
                       \* acquire, future pending), "woken" (future resolved, not
                       \* yet resumed), "attempt", "pacing", "returned"
    hist,              \* per call: the transport outcomes of its attempts, in order
    routcome,          \* per call: how request() ended
    rlog,              \* per call: the records request() gave the logger
    \* ---- the upstream site (the environment of a search session) ----
    site,              \* [pages, labels]: result pages it has, page links on page 1
    \* ---- BaseFindEngine / MultiMangaFindEngine: one session ----
    fe,                \* "none", "constructing" (factory awaiting), "ready", "failed"
    find_method,       \* self.find_method
    query,             \* self.query
    page_now,          \* self.page_now
    max_page,          \* self.max_page
    cashe,             \* self.cashe: page number -> parsed page
    lock,              \* self.lock: who holds it
    cwrite,            \* whether the lock was held at the latest write to self.cashe
    npc,               \* per caller: "idle", or "fetching" inside select_page
    target,            \* per caller: the `page` argument of select_page
    url,               \* per caller: the URL handed to engine.get
    nfetch,            \* per caller: engine.get calls issued by the call
    out,               \* the navigation call that ended last, and its result
    pre,               \* per caller: the call for the same page that ended
                       \* right before this one began, if any
    \* ---- history of the session, read by the claims only ----
    onlyNext,          \* so far only consecutive next_page calls were made
    nexts,             \* how many of them
    ffetch,            \* engine.get calls made by the factory
    fresh,             \* "new" from the factory's return to the first call or expiry
    firstCall,         \* the navigation call just made, when it is the first on the
                       \* new session: its op and how it went on
    asMade,            \* query, find_method and max_page as the factory left them
    burst,             \* the next_page calls issued in a row: the cursor they
                       \* started from and the pages they asked for
    got,               \* whether engine.get gave None to the select_page that just
                       \* ended: "absent", "other"
    \* ---- BaseSpider.get_manga_full: one call ----
    apc,               \* "idle", "detail", "gather", "returned", "raised"
    chapterUrls,       \* manga.chapters
    tasks,             \* per chapter task: its state and, once done, its result
    order,             \* task indices in the order the tasks completed
    full,              \* chapters of the MangaDetailSchema returned
    aerr,              \* what made the call raise: "none", "manga" (manga is None),
                       \* "chapter" (a gathered chapter is None), "task" (a task
                       \* raised), "key" (a link with no chapter under it)
    \* ---- RequestManager: the pacing wait of one request ----
    use_random_arg,    \* use_random as passed to __init__: "None", "True", "False"
    sleep_time_arg,    \* sleep_time as passed to __init__ (0: None or 0)
    use_random,        \* self.use_random
    sleep_time,        \* self.sleep_time
    ppc,               \* "ready", "sleeping" (in asyncio.sleep), "returned"
    delay,             \* the argument of asyncio.sleep, in 1/JitterSteps seconds
    \* ---- BaseSpider.get_manga: one call ----
    dpc,               \* "idle", "fetching" (awaiting engine.get), "ended"
    dfetched,          \* what engine.get gave: its kind and the page
    dret,              \* how get_manga ended: a manga, None, or an exception
    dop,               \* the method called: "get_manga" or "get_manga_chapter"
    durl,              \* the url argument of get_manga_chapter
    dimgs,             \* the gallery images of the chapter page engine.get gave
    dchap,             \* the chapter get_manga_chapter returned
    dparse,            \* calls of parse_manga / parse_chapter made by the method
    \* ---- one search session with the clock of its cache ----
    tnow,              \* the timer of the TTLCache (time.monotonic)
    maxsize,           \* self.cashe.maxsize
    ttl,               \* self.cashe.ttl
    links,             \* self.cashe: its entries, the one used longest ago first
    tmax,              \* self.max_page
    tcur,              \* self.page_now
    evicted,           \* pages removed to make room and not stored since
    gen,               \* per all_page() generator: its state ("none", "open",
                       \* "waiting" inside select_page, "ended", "raised"), the
                       \* elements it yielded, the select_page calls it made
                       \* and the page of the latest of them
    tout,              \* the select_page call made on the session that
                       \* returned in the step just taken, if one did
    tsel,              \* the pages of the select_page calls made on the
                       \* session that wait for engine.get (a bag: callers
                       \* have no names)
    \* ---- MangaService: its construction and the routing of requests ----
    session_kind,      \* what was passed as session: "session" or "manager"
    spiders,           \* the spider classes passed to __init__
    spider_i,          \* position of the loop `for Spider in spiders`
    loaded_spider,     \* self._loaded_spider
    load_failed,       \* positions of the classes whose construction raised
    load_error,        \* per class tried, the exception its construction
                       \* raised (the one logged), "none" when it was loaded
    next_engine,       \* RequestManager objects made so far by the spiders
    mpc,               \* "init" (in __init__), "ready", "SpiderError"
    inflight,          \* loaded spiders with a request in flight on their engine
    routed,            \* the request routed last: its method and argument, the
                       \* domain looked for, the spider found, what was returned
    \* ---- one BaseParserMother subclass and its construction ----
    roles,             \* what MANGA_PARSER, PAGE_PARSER, CHAPTER_PARSER are
    built,             \* "new", "mother" (constructed), or the exception raised
    served             \* the role of the parser that served the last parse_* call

fetchVars == <<max_concurrents, max_retries, sem_value, sem_waiters, rpc, hist, routcome,
              rlog>>

sessionVars == <<fe, find_method, query, page_now, max_page, cashe, lock, cwrite>>

callVars == <<npc, target, url, nfetch, out, pre>>

historyVars == <<onlyNext, nexts, ffetch, fresh, firstCall, asMade, got>>

burstVars == <<burst>>

findVars == <<site, sessionVars, callVars, historyVars, burstVars>>

aggVars == <<apc, chapterUrls, tasks, order, full, aerr>>

paceVars == <<use_random_arg, sleep_time_arg, use_random, sleep_time, ppc, delay>>

detailVars == <<dpc, dfetched, dret, dop, durl, dimgs, dchap, dparse>>

cacheVars == <<tnow, maxsize, ttl, links, tmax, tcur, evicted, gen, tout, tsel>>

regVars == <<session_kind, spiders, spider_i, loaded_spider, load_failed, load_error, next_engine,
            mpc, inflight, routed>>

motherVars == <<roles, built, served>>

otherVars == <<paceVars, detailVars, cacheVars, regVars, motherVars>>

vars == <<fetchVars, findVars, aggVars, otherVars>>

(***************************************************************************)
(* Bounds of the model.                                                    *)
(***************************************************************************)
NumCalls == 3            \* concurrently issued request() calls
MaxConcurrentsArg == 2   \* largest max_concurrents passed to __init__
MaxRetriesArg == 2       \* largest max_retries passed to __init__
MaxPages == 3            \* most result pages the upstream site has
NumNavs == 2             \* concurrent callers of one search session
ItemsPerPage == 2        \* gallery tags on one results page
MaxChapters == 3         \* most chapter links of one manga, and distinct chapter URLs
MaxSleepArg == 4         \* largest sleep_time passed to __init__
JitterSteps == 2         \* random.uniform(0, 1) takes the values 0, 1/2, .., 1
MaxClock == 2            \* the clock stops here
MaxSizeArg == 2          \* largest max_size passed to BaseFindEngine.__init__
MaxTtlArg == 1           \* largest ttl passed to BaseFindEngine.__init__
NumGens == 2             \* all_page() generators made on one session
MaxSpiders == 2          \* most spider classes passed to MangaService
MaxImgs == 2             \* most gallery images of one chapter page

(***************************************************************************)
(* Program constants.                                                      *)
(***************************************************************************)
DEFAULT_MAX_CONCURRENTS == 5
MAX_RETRIES == 3
SLEEP_TIME == 2
USE_RANDOM == TRUE
MAX_SIZE == 32
TTL == 300

Calls == 1..NumCalls

(***************************************************************************)
(* What one transport attempt (session.request + raise_for_status + body   *)
(* read) can do: succeed, raise ClientResponseError with a status, or      *)
(* raise something that is not a ClientResponseError (a connection error,  *)
(* asyncio.TimeoutError of the per-attempt timeout).                       *)
(***************************************************************************)
Statuses == {"ok", "404", "403", "500", "neterr", "timeout"}

\* `x or default`: None and 0 are both falsy; None is written 0 here.
OrDefault(arg, default) == IF arg = 0 THEN default ELSE arg

\* RequestManager.__init__: the effective policy.
InitMaxConcurrents(arg) == OrDefault(arg, DEFAULT_MAX_CONCURRENTS)
InitMaxRetries(arg) == OrDefault(arg, MAX_RETRIES)

Navs == 1..NumNavs

NoUrl == [kind |-> "none", page |-> 0]

\* Holders of the session lock: nobody, the factory, or a caller in Navs.
FreeLock == -1
Factory == 0

\* No navigation call has ended yet (or a TTL expiry has happened since).
NoPrev == [how |-> "none", ret |-> <<>>, nfetch |-> 0, dup |-> FALSE]
NoCall == [page |-> 0, how |-> "none", ret |-> <<>>, nfetch |-> 0,
           twin |-> FALSE, dup |-> FALSE, after |-> NoPrev]

\* A session that starts before the first page.
FirstPageZero == 1 - 1
\* `self.page_now = 1` in BaseFindEngine.__init__
FirstPage == 1

\* Nothing recorded of a factory call or of a run of next_page calls.
NoFirst == [op |-> "none", how |-> "none"]
NoMade == [query |-> "none", find_method |-> "none", max_page |-> -1]
NoBurst == [from |-> 0, targets |-> <<>>]

\* No search session exists and nobody is calling one.
IdleFind ==
    /\ site = [pages |-> 1, labels |-> {}]
    /\ fe = "none"
    /\ find_method = "none"
    /\ query = "none"
    /\ page_now = FirstPage
    /\ max_page = -1
    /\ cashe = <<>>
    /\ lock = FreeLock
    /\ cwrite = "none"
    /\ npc = [c \in Navs |-> "idle"]
    /\ target = [c \in Navs |-> 0]
    /\ url = [c \in Navs |-> NoUrl]
    /\ nfetch = [c \in Navs |-> 0]
    /\ out = NoCall
    /\ pre = [c \in Navs |-> NoPrev]
    /\ onlyNext = FALSE
    /\ nexts = 0
    /\ ffetch = 0
    /\ fresh = "none"
    /\ firstCall = NoFirst
    /\ asMade = NoMade
    /\ burst = NoBurst
    /\ got = "none"

\* Nobody is calling get_manga_full.
IdleAgg ==
    /\ apc = "idle"
    /\ chapterUrls = <<>>
    /\ tasks = <<>>
    /\ order = <<>>
    /\ full = <<>>
    /\ aerr = "none"

\* A RequestManager built with its defaults, with no call in progress.
IdleFetch ==
    /\ max_concurrents = InitMaxConcurrents(0)
    /\ max_retries = InitMaxRetries(0)
    /\ sem_value = max_concurrents
    /\ sem_waiters = <<>>
    /\ rpc = [c \in Calls |-> "idle"]
    /\ hist = [c \in Calls |-> <<>>]
    /\ routcome = [c \in Calls |-> "none"]
    /\ rlog = [c \in Calls |-> <<>>]

\* A RequestManager built with the default pacing, not inside a request.
IdlePace ==
    /\ use_random_arg = "None"
    /\ sleep_time_arg = 0
    /\ use_random = USE_RANDOM
    /\ sleep_time = SLEEP_TIME
    /\ ppc = "ready"
    /\ delay = 0

\* A manga page with none of the elements the parser looks for, and no manga.
NoSoup == [title |-> "none", poster |-> "none", canonical |-> "none",
           author |-> "none", language |-> "none"]
NoManga == [title |-> "none", poster |-> "none", url |-> "none",
            author |-> "none", language |-> "none", chapters |-> <<>>]

\* No chapter.
NoChapter == [url |-> 0, gallery |-> <<>>]

\* Nobody is calling get_manga.
IdleDetail ==
    /\ dpc = "idle"
    /\ dfetched = [kind |-> "none", soup |-> NoSoup]
    /\ dret = [kind |-> "none", err |-> "none", manga |-> NoManga]
    /\ dop = "none"
    /\ durl = 0
    /\ dimgs = <<>>
    /\ dchap = NoChapter
    /\ dparse = 0

Gens == 1..NumGens

\* A generator that all_page() has not made yet.
NoGen == [st |-> "none", pos |-> 0, calls |-> 0, sel |-> 0]

\* No select_page call has returned in the step just taken.
NoSelect == [page |-> 0, how |-> "none"]

\* A session with the default cache whose factory stored page 1 at time 0.
IdleCache ==
    /\ tnow = 0
    /\ maxsize = MAX_SIZE
    /\ ttl = TTL
    /\ links = <<[key |-> 1, at |-> 0, expires |-> TTL]>>
    /\ tmax = 1
    /\ tcur = 1
    /\ evicted = {}
    /\ gen = [g \in Gens |-> NoGen]
    /\ tout = NoSelect
    /\ tsel = EmptyBag

\* The spider's own RequestManager objects are numbered from 1; the one passed
\* to the service as session is GivenManager.
GivenManager == 0

\* No request has been routed yet.
NoRoute == [op |-> "none", arg |-> "none", domain |-> "none", spider |-> 0, ret |-> "none"]

\* A service that was given a raw session and no spider class.
IdleReg ==
    /\ session_kind = "session"
    /\ spiders = <<>>
    /\ spider_i = 1
    /\ loaded_spider = <<>>
    /\ load_failed = {}
    /\ load_error = <<>>
    /\ next_engine = 0
    /\ mpc = "init"
    /\ inflight = {}
    /\ routed = NoRoute

\* The three roles of a parser mother.
Roles == {"manga", "page", "chapter"}

\* The site's mother (MultiMangaParserMother), not yet constructed.
IdleMother ==
    /\ roles = [r \in Roles |-> "ok"]
    /\ built = "new"
    /\ served = "none"

IdleOther == IdlePace /\ IdleDetail /\ IdleCache /\ IdleReg /\ IdleMother

InitFetch ==
    /\ \E mc \in 0..MaxConcurrentsArg : max_concurrents = InitMaxConcurrents(mc)
    /\ \E mr \in 0..MaxRetriesArg : max_retries = InitMaxRetries(mr)
    /\ sem_value = max_concurrents
    /\ sem_waiters = <<>>
    /\ rpc = [c \in Calls |-> "idle"]
    /\ hist = [c \in Calls |-> <<>>]
    /\ routcome = [c \in Calls |-> "none"]
    /\ rlog = [c \in Calls |-> <<>>]
    /\ IdleFind
    /\ IdleAgg
    /\ IdleOther

\* A gate that takes every caller for one that must wait.
SemLockedAlways == TRUE
\* asyncio.Semaphore.locked()
SemLocked == sem_value = 0 \/ sem_waiters # <<>>

\* The calls admitted through the gate that have not returned.
InFlight == {c \in Calls : rpc[c] \in {"attempt", "pacing"}}

\* `for _ in range(self.max_retries)`: the number of iterations.
LoopBoundPlusOne == max_retries + 1
LoopBound == max_retries

\* `except ClientResponseError`: the statuses that return at once.
IsTerminalOnly404(status) == status = "404"
IsTerminal(status) == status \in {"404", "403"}

\* The statuses raise_for_status turns into ClientResponseError.
IsResponseError(status) == status \in {"404", "403", "500"}

\* logger.info at the head of the `async with` block.
StartRecord == [level |-> "info", what |-> "start"]

\* The record one iteration of the retry loop logs for the status of its
\* attempt; an exception that is not a ClientResponseError logs nothing.
AttemptRecord(status) ==
    CASE status = "ok" -> <<[level |-> "info", what |-> "got"]>>
      [] status = "404" -> <<[level |-> "warning", what |-> "missing"]>>
      [] status = "403" -> <<[level |-> "warning", what |-> "forbidden"]>>
      [] IsResponseError(status) -> <<[level |-> "error", what |-> "failed"]>>
      [] OTHER -> <<>>

\* An exhaustion record no more severe than a terminal one.
ExhaustionRecordAsWarning == [level |-> "warning", what |-> "exhausted"]
\* logger.error after the loop.
ExhaustionRecord == [level |-> "error", what |-> "exhausted"]

\* The log after call c logged recs.
LogTo(log, c, recs) == [log EXCEPT ![c] = @ \o recs]

\* _wake_up_next: the first caller in _waiters whose future is not done; 0
\* when there is none.
NextWaiter ==
    LET idx == {i \in 1..Len(sem_waiters) : rpc[sem_waiters[i]] = "waiting"} IN
    IF idx = {} THEN 0
    ELSE sem_waiters[CHOOSE i \in idx : \A j \in idx : i <= j]

\* A request() that keeps its slot when an exception leaves it.
ReleaseAndUnlessRaised(c, ending) ==
    LET w == IF ending = "raised" THEN 0 ELSE NextWaiter IN
    /\ routcome' = [routcome EXCEPT ![c] = ending]
    /\ rpc' = IF w = 0 THEN [rpc EXCEPT ![c] = "returned"]
              ELSE [rpc EXCEPT ![c] = "returned", ![w] = "woken"]
    /\ sem_value' = IF w = 0 /\ ending # "raised" THEN sem_value + 1 ELSE sem_value
    /\ sem_waiters' = sem_waiters
(***************************************************************************)
(* Leaving `async with self.semaphore` (any exit path): Semaphore.release  *)
(* adds a slot and _wake_up_next gives it to the first caller in _waiters  *)
(* whose future is not done: the slot is taken for it and its future is    *)
(* resolved; it stays in _waiters until it resumes.                        *)
(***************************************************************************)
ReleaseAnd(c, ending) ==
    LET w == NextWaiter IN
    /\ routcome' = [routcome EXCEPT ![c] = ending]
    /\ rpc' = IF w = 0 THEN [rpc EXCEPT ![c] = "returned"]
              ELSE [rpc EXCEPT ![c] = "returned", ![w] = "woken"]
    /\ sem_value' = IF w = 0 THEN sem_value + 1 ELSE sem_value
    /\ sem_waiters' = sem_waiters

\* A faulty request(): enters the retry loop without passing the gate.
RequestUngated(c) ==
    /\ rpc[c] = "idle"
    /\ rpc' = [rpc EXCEPT ![c] = "attempt"]
    /\ rlog' = LogTo(rlog, c, <<StartRecord>>)
    /\ UNCHANGED <<max_concurrents, max_retries, sem_value, sem_waiters, hist, routcome>>
    /\ UNCHANGED <<findVars, aggVars, otherVars>>

\* request(): `async with self.semaphore` - admitted at once or queued.
Request(c) ==
    /\ rpc[c] = "idle"
    /\ IF ~SemLocked
       THEN /\ sem_value' = sem_value - 1
            /\ rpc' = [rpc EXCEPT ![c] = "attempt"]
            /\ rlog' = LogTo(rlog, c, <<StartRecord>>)
            /\ UNCHANGED sem_waiters
       ELSE /\ sem_waiters' = Append(sem_waiters, c)
            /\ rpc' = [rpc EXCEPT ![c] = "waiting"]
            /\ UNCHANGED <<sem_value, rlog>>
    /\ UNCHANGED <<max_concurrents, max_retries, hist, routcome>>
    /\ UNCHANGED <<findVars, aggVars, otherVars>>

\* A request() that leaves the gate before it sleeps.
PacingSleepOutsideGate(c) ==
    LET w == NextWaiter IN
    /\ rpc' = IF w = 0 THEN [rpc EXCEPT ![c] = "pacing"]
              ELSE [rpc EXCEPT ![c] = "pacing", ![w] = "woken"]
    /\ sem_value' = IF w = 0 THEN sem_value + 1 ELSE sem_value
    /\ sem_waiters' = sem_waiters
    /\ rlog' = LogTo(rlog, c, AttemptRecord("ok"))
    /\ UNCHANGED routcome
\* The result was read: logger.info, then `await asyncio.sleep(...)`, inside
\* the `async with self.semaphore` block.
PacingSleep(c) ==
    /\ rpc' = [rpc EXCEPT ![c] = "pacing"]
    /\ rlog' = LogTo(rlog, c, AttemptRecord("ok"))
    /\ UNCHANGED <<sem_value, sem_waiters, routcome>>

\* One iteration of the retry loop, up to its return, its raise or the next
\* iteration.
Attempt(c, status) ==
    /\ rpc[c] = "attempt"
    /\ Len(hist[c]) < LoopBound
    /\ hist' = [hist EXCEPT ![c] = Append(@, status)]
    /\ UNCHANGED <<max_concurrents, max_retries>>
    /\ UNCHANGED <<findVars, aggVars, otherVars>>
    /\ CASE status = "ok" ->
              \* result read; `await asyncio.sleep(...)` before `return result`
              PacingSleep(c)
         [] IsResponseError(status) /\ IsTerminal(status) ->
              \* logger.warning; `return`
              /\ ReleaseAnd(c, "absent")
              /\ rlog' = LogTo(rlog, c, AttemptRecord(status))
         [] IsResponseError(status) /\ ~IsTerminal(status) ->
              \* logger.error; next iteration, or the loop ends: logger.error,
              \* the function falls off its end and returns None
              IF Len(hist[c]) + 1 < LoopBound
              THEN /\ rlog' = LogTo(rlog, c, AttemptRecord(status))
                   /\ UNCHANGED <<sem_value, sem_waiters, rpc, routcome>>
              ELSE /\ ReleaseAnd(c, "absent")
                   /\ rlog' = LogTo(rlog, c, AttemptRecord(status) \o <<ExhaustionRecord>>)
         [] OTHER ->
              \* not a ClientResponseError: no handler, the exception leaves
              \* request() through the `async with`
              /\ ReleaseAnd(c, "raised")
              /\ rlog' = LogTo(rlog, c, AttemptRecord(status))

\* The pacing sleep after a successful attempt ends; `return result`.
Pace(c) ==
    /\ rpc[c] = "pacing"
    /\ ReleaseAnd(c, "result")
    /\ UNCHANGED <<max_concurrents, max_retries, hist, rlog>>
    /\ UNCHANGED <<findVars, aggVars, otherVars>>

\* A woken caller resumes inside acquire(): it leaves _waiters, and when a
\* slot is free it wakes the next caller (`if self._value > 0:
\* self._wake_up_next()`); then it enters the block and logs its start.
Resume(c) ==
    /\ rpc[c] = "woken"
    /\ LET w == IF sem_value > 0 THEN NextWaiter ELSE 0 IN
        /\ sem_waiters' = SelectSeq(sem_waiters, LAMBDA x : x # c)
        /\ sem_value' = IF w = 0 THEN sem_value ELSE sem_value - 1
        /\ rpc' = IF w = 0 THEN [rpc EXCEPT ![c] = "attempt"]
                  ELSE [rpc EXCEPT ![c] = "attempt", ![w] = "woken"]
    /\ rlog' = LogTo(rlog, c, <<StartRecord>>)
    /\ UNCHANGED <<max_concurrents, max_retries, hist, routcome>>
    /\ UNCHANGED <<findVars, aggVars, otherVars>>

NextFetch ==
    \/ \E c \in Calls : Request(c)
    \/ \E c \in Calls : Resume(c)
    \/ \E c \in Calls, status \in Statuses : Attempt(c, status)
    \/ \E c \in Calls : Pace(c)

SpecFetch == InitFetch /\ [][NextFetch]_vars

(***************************************************************************)
(* A RequestManager with fewer slots than callers, and the event loop      *)
(* running every call that can run: a woken caller resumes, a transport    *)
(* attempt that was issued completes (with some status), and a pacing      *)
(* sleep that was started ends.                                            *)
(* Nothing obliges a caller to issue a call.  The manager is built with    *)
(* max_retries of one attempt or of one retry, and an attempt goes one of  *)
(* the four ways the retry loop tells apart: a result, a ClientResponse-   *)
(* Error that returns at once, one that is retried, another exception.     *)
(***************************************************************************)
LiveRetries == {1, 2}
LiveStatuses == {"ok", "404", "500", "neterr"}

InitFetchLive ==
    /\ \E mc \in 1..MaxConcurrentsArg : max_concurrents = InitMaxConcurrents(mc)
    /\ \E mr \in LiveRetries : max_retries = InitMaxRetries(mr)
    /\ sem_value = max_concurrents
    /\ sem_waiters = <<>>
    /\ rpc = [c \in Calls |-> "idle"]
    /\ hist = [c \in Calls |-> <<>>]
    /\ routcome = [c \in Calls |-> "none"]
    /\ rlog = [c \in Calls |-> <<>>]
    /\ IdleFind /\ IdleAgg /\ IdleOther

NextFetchLive ==
    \/ \E c \in Calls : Request(c)
    \/ \E c \in Calls : Resume(c)
    \/ \E c \in Calls, status \in LiveStatuses : Attempt(c, status)
    \/ \E c \in Calls : Pace(c)

FairFetch ==
    \A c \in Calls :
        /\ WF_vars(Resume(c))
        /\ WF_vars(\E status \in LiveStatuses : Attempt(c, status))
        /\ WF_vars(Pace(c))

SpecFetchLive == InitFetchLive /\ [][NextFetchLive]_vars /\ FairFetch

(***************************************************************************)
(* Claims about RequestManager, checked under SpecFetch.                   *)
(***************************************************************************)
AllOf(c, status) == \A i \in 1..Len(hist[c]) : hist[c][i] = status

\* C1: with max_concurrents = k and more than k calls issued, the calls
\* admitted through the semaphore that have not yet returned never number
\* more than k.
C1_ConcurrencyBound == Cardinality(InFlight) <= max_concurrents

\* C1 witness: the gate is full (k calls in flight) and a further caller is
\* suspended in the queue.
C1_Witness ==
    /\ Cardinality(InFlight) = max_concurrents
    /\ sem_waiters # <<>>
    /\ NumCalls > max_concurrents

\* C2: an attempt answered 404 or 403 is the last attempt of its call, and
\* the call has returned absent, whatever retry budget remains.
C2_TerminalNoRetry ==
    \A c \in Calls : \A i \in 1..Len(hist[c]) :
        hist[c][i] \in {"404", "403"} =>
            /\ i = Len(hist[c])
            /\ rpc[c] = "returned"
            /\ routcome[c] = "absent"

\* C2 witness: a call returned absent after a single attempt answered 403
\* while two more attempts were allowed.
C2_Witness ==
    \E c \in Calls :
        /\ hist[c] = <<"403">>
        /\ rpc[c] = "returned"
        /\ max_retries = 3

\* C3 as stated: a call all of whose attempts got HTTP 500 returns absent
\* after exactly max_retries retries, i.e. max_retries attempts after the
\* first one.
C3_RetriedMaxRetriesTimes ==
    \A c \in Calls :
        (rpc[c] = "returned" /\ hist[c] # <<>> /\ AllOf(c, "500")) =>
            /\ Len(hist[c]) - 1 = max_retries
            /\ routcome[c] = "absent"

\* C3 amended: a call all of whose attempts got HTTP 500 makes exactly
\* max_retries attempts in total (max_retries - 1 retries): it has not ended
\* before the max_retries-th attempt, and after it the call has returned
\* absent (neither a result nor an exception).
C3_AttemptedMaxRetriesTimes ==
    \A c \in Calls :
        (hist[c] # <<>> /\ AllOf(c, "500")) =>
            /\ Len(hist[c]) <= max_retries
            /\ Len(hist[c]) < max_retries => rpc[c] = "attempt"
            /\ Len(hist[c]) = max_retries =>
                   rpc[c] = "returned" /\ routcome[c] = "absent"

\* C3 witness: a call has returned after three attempts, all answered 500.
C3_Witness ==
    \E c \in Calls :
        /\ hist[c] = <<"500", "500", "500">>
        /\ rpc[c] = "returned"
        /\ routcome[c] = "absent"

\* C4: a network error or a per-attempt timeout consumes one retry: the call
\* goes on to the next attempt while budget remains, returns absent when the
\* budget is used up, and never raises to its caller.
C4_NetworkErrorRetried ==
    \A c \in Calls : \A i \in 1..Len(hist[c]) :
        hist[c][i] \in {"neterr", "timeout"} =>
            /\ routcome[c] # "raised"
            /\ i < max_retries => (Len(hist[c]) > i \/ rpc[c] = "attempt")
            /\ i = max_retries => (rpc[c] = "returned" /\ routcome[c] = "absent")

\* The asyncio.sleep calls call c has made: the one after its successful
\* attempt, and no other.
\* The records of call c that are of severity level, and of kind what.
AtLevel(c, level) == SelectSeq(rlog[c], LAMBDA r : r.level = level)
OfKind(c, what) == SelectSeq(rlog[c], LAMBDA r : r.what = what)

\* Call c returned None from the terminal branch / after the loop.
EndedTerminal(c) ==
    /\ rpc[c] = "returned" /\ routcome[c] = "absent"
    /\ IsTerminal(hist[c][Len(hist[c])])
EndedExhausted(c) ==
    /\ rpc[c] = "returned" /\ routcome[c] = "absent"
    /\ ~IsTerminal(hist[c][Len(hist[c])])

\* C24: a call that used up its retries ends its log with the exhaustion
\* record, at error severity; a call that ended on 404 or 403 ends its log
\* with the terminal record, at warning severity, which is more than the
\* records of its failed attempts before only when there were none, and its
\* log never holds the exhaustion record; no other call logs either record.
C24_ExhaustionLoggedApart ==
    \A c \in Calls :
        /\ EndedExhausted(c) =>
               /\ rlog[c][Len(rlog[c])] = [level |-> "error", what |-> "exhausted"]
               /\ Len(OfKind(c, "exhausted")) = 1
               /\ Len(AtLevel(c, "warning")) = 0
        /\ EndedTerminal(c) =>
               /\ rlog[c][Len(rlog[c])].level = "warning"
               /\ rlog[c][Len(rlog[c])].what \in {"missing", "forbidden"}
               /\ Len(AtLevel(c, "warning")) = 1
               /\ Len(OfKind(c, "exhausted")) = 0
               /\ Len(AtLevel(c, "error")) = Len(hist[c]) - 1
        /\ Len(OfKind(c, "exhausted")) > 0 => EndedExhausted(c)
        /\ Len(AtLevel(c, "warning")) > 0 => EndedTerminal(c)

C24_Witness ==
    \E c, d \in Calls :
        /\ EndedExhausted(c) /\ Len(hist[c]) > 1
        /\ EndedTerminal(d) /\ Len(hist[d]) = 1

\* The calls that hold a slot: those past the gate that have not returned,
\* and those woken inside acquire() with the slot taken for them.
Holding == {c \in Calls : rpc[c] \in {"woken", "attempt", "pacing"}}

\* C32 as stated: the free slots of the semaphore and the calls in progress
\* past the gate always add up to max_concurrents, and with no call in
\* progress every slot is free.
C32_SlotsReleasedOnEveryExit ==
    /\ sem_value + Cardinality(InFlight) = max_concurrents
    /\ (\A c \in Calls : rpc[c] \in {"idle", "returned"}) => sem_value = max_concurrents

\* C32 amended: the free slots and the calls that hold a slot (past the gate
\* and not returned, or woken at the gate with a slot taken for them and not
\* yet resumed) always add up to max_concurrents, whichever way calls have
\* ended (result, None on 404/403, None after the last retry, an exception);
\* with no call in progress every slot is free and nobody is at the gate.
C32_SlotsHeldOrFree ==
    /\ sem_value + Cardinality(Holding) = max_concurrents
    /\ sem_value >= 0
    /\ (\A c \in Calls : rpc[c] \in {"idle", "returned"}) =>
           (sem_value = max_concurrents /\ sem_waiters = <<>>)
    /\ \A c \in Calls :
           rpc[c] \in {"waiting", "woken"} <=> \E i \in 1..Len(sem_waiters) : sem_waiters[i] = c

\* C32 witness: with two slots, two calls have ended, one by an exception
\* and one after its last retry; the first release woke the caller at the
\* gate, which has not resumed yet, and the second left one slot free.
C32_Witness ==
    /\ max_concurrents = 2
    /\ sem_value = 1
    /\ InFlight = {}
    /\ \E a, b, w \in Calls :
           /\ rpc[a] = "returned" /\ routcome[a] = "raised"
           /\ EndedExhausted(b) /\ Len(hist[b]) = max_retries
           /\ rpc[w] = "woken" /\ sem_waiters = <<w>>

\* C33: when every attempt completes and every pacing sleep ends, every
\* call that was issued eventually returns and every caller suspended at the
\* gate is eventually admitted.  A call only moves forward (idle, waiting,
\* woken, attempt, pacing, returned), so this is: from some point on, for
\* good, no call is at the gate or in progress.
C33_EveryCallReturns == <>[](\A c \in Calls : rpc[c] \in {"idle", "returned"})

\* C33 witness: one slot, held by a call in its pacing sleep, and two callers
\* suspended at the gate behind it.
C33_Witness ==
    /\ max_concurrents = 1
    /\ Len(sem_waiters) = 2
    /\ \E c \in Calls : rpc[c] = "pacing"
    /\ \A i \in 1..Len(sem_waiters) : rpc[sem_waiters[i]] = "waiting"

\* The calls that return in the step.
Returning == {c \in Calls : rpc[c] \in {"attempt", "pacing"} /\ rpc'[c] = "returned"}

\* C34: a call keeps its slot from its admission to its return, through its
\* retries and its pacing sleep: a slot becomes free only in a step in which
\* a call returns; a waiting caller is woken, the first of those waiting,
\* only in a step in which a call returns or, a slot being free, in the step
\* in which a woken caller resumes; a caller enters the block only from idle
\* with the gate open or after it was woken; an attempt after which the
\* call retries or sleeps leaves the semaphore as it was; and while no slot
\* is free, no waiting caller is woken in a step in which no call returns.
C34_SlotKeptUntilReturn ==
    [][/\ sem_value' > sem_value => Returning # {}
       /\ \A w \in Calls :
              (rpc[w] = "waiting" /\ rpc'[w] # "waiting") =>
                  /\ rpc'[w] = "woken"
                  /\ w = NextWaiter
                  /\ \/ Returning # {}
                     \/ sem_value > 0 /\ \E c \in Calls : rpc[c] = "woken" /\ rpc'[c] = "attempt"
       /\ \A c \in Calls :
              (rpc[c] # "attempt" /\ rpc'[c] = "attempt") =>
                  \/ rpc[c] = "woken"
                  \/ rpc[c] = "idle" /\ sem_value > 0 /\ sem_waiters = <<>>
       /\ \A c \in Calls :
              (hist'[c] # hist[c] /\ rpc'[c] \in {"attempt", "pacing"}) =>
                  UNCHANGED <<sem_value, sem_waiters>>
       /\ (sem_value = 0 /\ Returning = {}) =>
              \A w \in Calls : rpc[w] = "waiting" => rpc'[w] = "waiting"]_vars

\* C34 witness: both slots are held, one of them by a call that is in its
\* pacing sleep after a retry, and a caller waits at the gate.
C34_Witness ==
    /\ max_concurrents = 2
    /\ Cardinality(InFlight) = 2
    /\ sem_value = 0
    /\ sem_waiters # <<>>
    /\ \E c \in Calls : rpc[c] = "pacing" /\ Len(hist[c]) >= 2

\* C35: __init__ keeps a max_retries of 1 or more and puts 3 in the place of
\* one that is unset or 0; a call makes no more than max_retries attempts,
\* the first one included, and has made at least one when it sleeps or has
\* returned.
C35_AttemptsWithinMaxRetries ==
    /\ \A arg \in 0..MaxRetriesArg :
           InitMaxRetries(arg) = IF arg = 0 THEN 3 ELSE arg
    /\ max_retries \in {InitMaxRetries(arg) : arg \in 0..MaxRetriesArg}
    /\ max_retries >= 1
    /\ \A c \in Calls :
           /\ Len(hist[c]) <= max_retries
           /\ rpc[c] \in {"pacing", "returned"} => Len(hist[c]) >= 1
           /\ (rpc[c] = "attempt" /\ Len(hist[c]) > 0) =>
                  (\A i \in 1..Len(hist[c]) : hist[c][i] = "500")

\* C35 witness: on a manager built with max_retries unset, one call has
\* returned after its third attempt, a success, and another after its first.
C35_Witness ==
    /\ max_retries = InitMaxRetries(0)
    /\ \E c, d \in Calls :
           /\ rpc[c] = "returned" /\ routcome[c] = "result" /\ Len(hist[c]) = 3
           /\ rpc[d] = "returned" /\ Len(hist[d]) = 1

Sleeps(c) == IF rpc[c] = "pacing" \/ routcome[c] = "result" THEN 1 ELSE 0

\* C13 as stated: within one request() call every attempt is followed by a
\* pacing wait: a failed attempt that is retried is followed by a wait before
\* the next attempt is issued, and a successful attempt by one wait before
\* the result is returned.
C13_EveryAttemptPaced ==
    \A c \in Calls :
        /\ rpc[c] = "attempt" => Sleeps(c) = Len(hist[c])
        /\ routcome[c] = "result" => Sleeps(c) = Len(hist[c])

(***************************************************************************)
(* RequestManager: how long the pacing wait after a successful attempt is. *)
(***************************************************************************)
\* `use_random or self.USE_RANDOM`
InitUseRandom(arg) == (arg = "True") \/ USE_RANDOM

\* `sleep_time or self.SLEEP_TIME`
InitSleepTime(arg) == OrDefault(arg, SLEEP_TIME)

\* The values random.uniform(0, 1) can take, in 1/JitterSteps.
Uniform01 == 0..JitterSteps

\* self.sleep_time * (random.uniform(0, 1) if self.use_random else 1)
SleepArg(r) == sleep_time * (IF use_random THEN r ELSE JitterSteps)

InitPace ==
    /\ IdleFetch /\ IdleFind /\ IdleAgg /\ IdleDetail /\ IdleCache /\ IdleReg /\ IdleMother
    /\ use_random_arg \in {"None", "True", "False"}
    /\ sleep_time_arg \in 0..MaxSleepArg
    /\ use_random = InitUseRandom(use_random_arg)
    /\ sleep_time = InitSleepTime(sleep_time_arg)
    /\ ppc = "ready"
    /\ delay = 0

\* An attempt of request() succeeded: the body is read and the call sleeps.
Sleep(r) ==
    /\ ppc = "ready"
    /\ ppc' = "sleeping"
    /\ delay' = SleepArg(r)
    /\ UNCHANGED <<use_random_arg, sleep_time_arg, use_random, sleep_time>>
    /\ UNCHANGED <<fetchVars, findVars, aggVars, detailVars, cacheVars, regVars, motherVars>>

\* asyncio.sleep is over and request() returns the body.
Wake ==
    /\ ppc = "sleeping"
    /\ ppc' = "returned"
    /\ UNCHANGED <<use_random_arg, sleep_time_arg, use_random, sleep_time, delay>>
    /\ UNCHANGED <<fetchVars, findVars, aggVars, detailVars, cacheVars, regVars, motherVars>>

NextPace ==
    \/ \E r \in Uniform01 : Sleep(r)
    \/ Wake

SpecPace == InitPace /\ [][NextPace]_vars

\* C14 as stated: a RequestManager built with use_random = False sleeps the
\* fixed sleep_time at every pacing wait; the wait is scaled by a random
\* factor only when it was built with use_random enabled.
C14_FixedDelayWithoutJitter ==
    (use_random_arg = "False" /\ ppc \in {"sleeping", "returned"}) =>
        delay = sleep_time * JitterSteps

(***************************************************************************)
(* BaseSpider.get_manga and the manga parser (MultiMangaParser).           *)
(***************************************************************************)
\* An extractor's outcome: a value, or the exception it raises.
Got(v) == [ok |-> TRUE, val |-> v, err |-> "none"]
Raises(e) == [ok |-> FALSE, val |-> "none", err |-> e]

\* The manga pages a site can serve: each element the parser looks for is
\* missing, present without its attribute or text, or complete.
Soups ==
    [title : {"none", "empty", "text"},
     poster : {"none", "nosrc", "src"},
     canonical : {"none", "nohref", "href"},
     author : {"none", "notags", "name"},
     language : {"none", "notags", "name"}]

\* A parser that makes up a title when the page has none.
ExtractTitleOrEmpty(soup) == Got(IF soup.title = "text" THEN "text" ELSE "")
\* MultiMangaParser._extract_title
ExtractTitle(soup) ==
    IF soup.title = "none"
    THEN Raises("MissingRequiredAttributeError")
    ELSE Got(IF soup.title = "text" THEN "text" ELSE "")

\* MultiMangaParser._extract_poster
ExtractPoster(soup) ==
    IF soup.poster = "src" THEN Got("poster") ELSE Raises("MissingRequiredAttributeError")

\* MultiMangaParser._extract_url
ExtractUrl(soup) ==
    IF soup.canonical = "href" THEN Got("url") ELSE Raises("MissingRequiredAttributeError")

\* _extract_tags(soup).get(name, [None])[0]: None without the container, an
\* IndexError when the container holds no tag.
FirstTag(container) ==
    CASE container = "none" -> Got("None")
      [] container = "notags" -> Raises("IndexError")
      [] OTHER -> Got("name")

\* BaseMangaParser.extract_manga: the extractors in order, then MangaSchema,
\* whose author and language must be strings.
ExtractManga(soup) ==
    LET title == ExtractTitle(soup)
        poster == ExtractPoster(soup)
        link == ExtractUrl(soup)
        author == FirstTag(soup.author)
        language == FirstTag(soup.language)
        fail(e) == [kind |-> "raised", err |-> e, manga |-> NoManga]
    IN  CASE ~title.ok -> fail(title.err)
          [] ~poster.ok -> fail(poster.err)
          [] ~link.ok -> fail(link.err)
          [] ~author.ok -> fail(author.err)
          [] ~language.ok -> fail(language.err)
          [] author.val = "None" \/ language.val = "None" -> fail("ValidationError")
          [] OTHER -> [kind |-> "manga", err |-> "none",
                       manga |-> [title |-> title.val, poster |-> poster.val,
                                  url |-> link.val, author |-> author.val,
                                  language |-> language.val,
                                  chapters |-> <<link.val>>]]

\* What engine.get can give get_manga: a page, an empty body, None, or an
\* exception.
DetailOutcomes == {"markup", "empty", "absent", "raised"}

ChapterUrlSet == 1..MaxChapters

\* What engine.get gives for a chapter URL: the page of that chapter.
ChapterMarkup(u) == [imgs |-> <<u, u>>]

\* MultiMangaChapterParser.extract_chapter
ExtractChapter(markup, u) == [url |-> u, gallery |-> markup.imgs]

\* The chapter pages a site can serve: the thumbnail container holds
\* 0..MaxImgs images.
ChapterPages == {[imgs |-> [i \in 1..n |-> i]] : n \in 0..MaxImgs}

\* A test that takes None for a response.
ResponseOrNone(outcome) == outcome \in {"markup", "absent"}
\* `if response := await self.engine.get(url, "read")`: a body that is not
\* empty.
Response(outcome) == outcome = "markup"

InitDetail == IdleFetch /\ IdleFind /\ IdleAgg /\ IdlePace /\ IdleDetail /\ IdleCache /\ IdleReg /\ IdleMother

\* get_manga(url) up to the await of engine.get.
GetManga ==
    /\ dpc = "idle"
    /\ dpc' = "fetching"
    /\ dop' = "get_manga"
    /\ UNCHANGED <<dfetched, dret, durl, dimgs, dchap, dparse>>
    /\ UNCHANGED <<fetchVars, findVars, aggVars, paceVars, cacheVars, regVars, motherVars>>

\* engine.get is over: a body that is not empty is parsed and the manga
\* returned (an exception of the parser leaves get_manga); None or an empty
\* body is logged and None returned.
MangaGot(outcome, soup) ==
    /\ dpc = "fetching"
    /\ dop = "get_manga"
    /\ outcome # "markup" => soup = NoSoup
    /\ dfetched' = [kind |-> outcome, soup |-> soup]
    /\ dret' = CASE outcome = "raised" -> [kind |-> "raised", err |-> "transport",
                                           manga |-> NoManga]
                 [] Response(outcome) /\ outcome = "markup" -> ExtractManga(soup)
                 [] Response(outcome) -> [kind |-> "raised", err |-> "TypeError",
                                          manga |-> NoManga]
                 [] OTHER -> [kind |-> "absent", err |-> "none", manga |-> NoManga]
    /\ dparse' = IF outcome # "raised" /\ Response(outcome) THEN dparse + 1 ELSE dparse
    /\ dpc' = "ended"
    /\ UNCHANGED <<dop, durl, dimgs, dchap>>
    /\ UNCHANGED <<fetchVars, findVars, aggVars, paceVars, cacheVars, regVars, motherVars>>

\* get_manga_chapter(url) up to the await of engine.get.
GetMangaChapter(u) ==
    /\ dpc = "idle"
    /\ dpc' = "fetching"
    /\ dop' = "get_manga_chapter"
    /\ durl' = u
    /\ UNCHANGED <<dfetched, dret, dimgs, dchap, dparse>>
    /\ UNCHANGED <<fetchVars, findVars, aggVars, paceVars, cacheVars, regVars, motherVars>>

\* engine.get is over: a body that is not empty is parsed and the chapter
\* returned; None or an empty body is logged and None returned.  Parsing
\* None raises in build_soup.
ChapterGot(outcome, page) ==
    /\ dpc = "fetching"
    /\ dop = "get_manga_chapter"
    /\ outcome # "markup" => page.imgs = <<>>
    /\ dfetched' = [kind |-> outcome, soup |-> NoSoup]
    /\ dimgs' = page.imgs
    /\ LET parses == outcome # "raised" /\ Response(outcome)
           fail(e) == [kind |-> "raised", err |-> e, manga |-> NoManga]
       IN  /\ dret' = CASE outcome = "raised" -> fail("transport")
                        [] parses /\ outcome = "markup" ->
                               [kind |-> "chapter", err |-> "none", manga |-> NoManga]
                        [] parses -> fail("TypeError")
                        [] OTHER -> [kind |-> "absent", err |-> "none", manga |-> NoManga]
           /\ dchap' = IF parses /\ outcome = "markup"
                       THEN ExtractChapter(page, durl) ELSE NoChapter
           /\ dparse' = IF parses THEN dparse + 1 ELSE dparse
    /\ dpc' = "ended"
    /\ UNCHANGED <<dop, durl>>
    /\ UNCHANGED <<fetchVars, findVars, aggVars, paceVars, cacheVars, regVars, motherVars>>

NextDetail ==
    \/ GetManga
    \/ \E outcome \in DetailOutcomes, soup \in Soups : MangaGot(outcome, soup)
    \/ \E u \in ChapterUrlSet : GetMangaChapter(u)
    \/ \E outcome \in DetailOutcomes, page \in ChapterPages : ChapterGot(outcome, page)

SpecDetail == InitDetail /\ [][NextDetail]_vars

\* C12: when the manga page was fetched and its markup has no title element,
\* get_manga ends with MissingRequiredAttributeError raised to its caller: it
\* returns neither None nor a manga (so none with an empty or made-up title).
C12_MissingTitleRaises ==
    (dpc = "ended" /\ dop = "get_manga" /\ dfetched.kind = "markup"
        /\ dfetched.soup.title = "none") =>
        /\ dret.kind = "raised"
        /\ dret.err = "MissingRequiredAttributeError"
        /\ dret.manga = NoManga

\* C12 witness: a page complete but for its title element was fetched and
\* get_manga raised.
C12_Witness ==
    /\ dpc = "ended"
    /\ dop = "get_manga"
    /\ dfetched.kind = "markup"
    /\ dfetched.soup = [title |-> "none", poster |-> "src", canonical |-> "href",
                        author |-> "name", language |-> "name"]
    /\ dret.kind = "raised"

\* C22: get_manga and get_manga_chapter whose engine.get gave None return
\* None: they do not raise and make no call of the parser.
C22_AbsentFetchGivesAbsent ==
    (dpc = "ended" /\ dfetched.kind = "absent") =>
        /\ dret = [kind |-> "absent", err |-> "none", manga |-> NoManga]
        /\ dchap = NoChapter
        /\ dparse = 0

C22_Witness ==
    /\ dpc = "ended"
    /\ dop = "get_manga_chapter"
    /\ dfetched.kind = "absent"
    /\ dret.kind = "absent"

\* C23: a chapter returned by get_manga_chapter (so by extract_chapter) has
\* at least one image in its gallery; a chapter page without gallery images
\* makes the call raise.
C23_ReturnedGalleryNonEmpty ==
    /\ dret.kind = "chapter" => dchap.gallery # <<>>
    /\ (dpc = "ended" /\ dop = "get_manga_chapter" /\ dfetched.kind = "markup"
            /\ dimgs = <<>>) => dret.kind = "raised"

(***************************************************************************)
(* The search session: BaseFindEngine and MultiMangaFindEngine.            *)
(***************************************************************************)
Max(S) == CHOOSE x \in S : \A y \in S : y <= x

\* next_page, back_page, current_page, select_page, one step of all_page.
Ops == {"next", "back", "current", "select", "all"}

(***************************************************************************)
(* What `await self.engine.get(url, 'read')` can give a session: the       *)
(* markup of the page, markup in which a gallery tag lacks its link, image *)
(* or title, None (404/403 or retries used up), or an exception that       *)
(* request() does not catch.                                               *)
(***************************************************************************)
FetchOutcomes == {"markup", "malformed", "absent", "raised"}

\* The markup the site serves for a URL built for results page p: the
\* gallery tags of that page and the numeric page links of the pagination.
UpstreamMarkup(p, wellformed) ==
    [tags |-> [i \in 1..ItemsPerPage |-> [item |-> <<p, i>>, whole |-> wellformed]],
     labels |-> IF p <= 1 THEN site.labels ELSE 1..site.pages]

\* MultiMangaPageParser._make_manga
MakeManga(tag) == [title |-> tag.item, poster |-> tag.item, url |-> tag.item]

\* BasePageParser.extract_page: raises MissingRequiredAttributeError when a
\* tag lacks a part (ok = FALSE).
ExtractPage(markup) ==
    IF \A i \in 1..Len(markup.tags) : markup.tags[i].whole
    THEN [ok |-> TRUE, val |-> [i \in 1..Len(markup.tags) |-> MakeManga(markup.tags[i])]]
    ELSE [ok |-> FALSE, val |-> <<>>]

\* MultiMangaFindEngine.get_max_page: the largest numeric link text, 1 when
\* max() of nothing raises.
GetMaxPageEmptyZero(markup) ==
    IF markup.labels = {} THEN 0 ELSE Max(markup.labels)
GetMaxPage(markup) ==
    IF markup.labels = {} THEN 1 ELSE Max(markup.labels)

\* MultiMangaFindEngine._build_page: the URL for the cursor pn.
BuildPageOffByOne(pn) == [kind |-> find_method, page |-> pn - 1]
BuildPage(pn) == [kind |-> find_method, page |-> pn]

\* select_page's range test.
OutOfRangeFromZero(page) == page < 0 \/ page > max_page
OutOfRange(page) == page < 1 \/ page > max_page

\* `page in self.cashe`
CacheHasNever(k) == FALSE
CacheHas(k) == k \in DOMAIN cashe

\* `self.cashe[page]`
CacheGet(k) == cashe[k]

\* A store under the cursor instead of under the page asked for.
CachePutAtCursor(entries, k, v) ==
    [x \in (DOMAIN entries) \cup {page_now} |-> IF x = page_now THEN v ELSE entries[x]]
\* `self.cashe[page] = result`
CachePut(entries, k, v) ==
    [x \in (DOMAIN entries) \cup {k} |-> IF x = k THEN v ELSE entries[x]]

\* TTLCache dropping the entry of key k.
CacheDrop(entries, k) == [x \in (DOMAIN entries) \ {k} |-> entries[x]]

\* Whether `who` holds self.lock at the moment it writes self.cashe.
LockAtWrite(who) == IF lock = who THEN "locked" ELSE "unlocked"

\* The query a caller passes: a title to find, a list of genres to
\* find_genres.
QueryOf(method) == IF method = "query" THEN "title" ELSE "genre,genre"

InitFind == IdleFetch /\ IdleFind /\ IdleAgg /\ IdleOther

\* MultiMangaFindEngine.find / find_genres up to the await of engine.get:
\* BaseFindEngine.__init__ and the first URL.
Find(method, m, labels) ==
    /\ fe = "none"
    /\ site' = [pages |-> m, labels |-> labels]
    /\ find_method' = method
    /\ query' = QueryOf(method)
    /\ page_now' = FirstPage
    /\ max_page' = -1
    /\ cashe' = <<>>
    /\ lock' = FreeLock
    /\ cwrite' = "none"
    /\ fe' = "constructing"
    /\ ffetch' = ffetch + 1
    /\ UNCHANGED <<onlyNext, nexts, fresh, firstCall, asMade, burst, got>>
    /\ UNCHANGED <<callVars, fetchVars, aggVars, otherVars>>

\* The factory after its fetch: get_max_page, parse_page, the first cache
\* entry.  build_soup(None) raises, and so does a parse of malformed markup.
FindFetched(outcome) ==
    /\ fe = "constructing"
    /\ LET markup == UpstreamMarkup(BuildPage(page_now).page, outcome = "markup")
           parsed == ExtractPage(markup)
       IN  IF outcome \in {"markup", "malformed"}
           THEN /\ max_page' = GetMaxPage(markup)
                /\ IF parsed.ok
                   THEN /\ cashe' = CachePut(cashe, page_now, parsed.val)
                        /\ cwrite' = LockAtWrite(Factory)
                        /\ fe' = "ready"
                        /\ onlyNext' = TRUE
                        /\ fresh' = "new"
                        /\ asMade' = [query |-> query, find_method |-> find_method,
                                    max_page |-> max_page']
                        /\ burst' = [from |-> page_now, targets |-> <<>>]
                   ELSE /\ fe' = "failed"
                        /\ UNCHANGED <<cashe, cwrite, onlyNext, fresh, asMade, burst>>
           ELSE /\ fe' = "failed"
                /\ UNCHANGED <<max_page, cashe, cwrite, onlyNext, fresh, asMade, burst>>
    /\ UNCHANGED <<site, find_method, query, page_now, lock, callVars, nexts, ffetch,
                   firstCall, got, fetchVars, aggVars, otherVars>>

\* next_page: the page asked of select_page.
NextPageSkips == page_now + 2
NextPageArg == page_now + 1

\* The `page` a navigation operation hands to select_page; n is the argument
\* of select_page, or the position the all_page generator has reached.
PageOf(o, n) ==
    CASE o = "next" -> NextPageArg
      [] o = "back" -> page_now - 1
      [] o = "current" -> page_now
      [] o = "select" -> n
      [] o = "all" -> n

\* The other callers that are inside select_page for the same page.
Twins(c, page) == {d \in Navs \ {c} : npc[d] = "fetching" /\ target[d] = page}

AllIdle == \A d \in Navs : npc[d] = "idle"

\* An update_page that takes the lock and leaves the cursor as it was.
\* update_page: the lock is taken, the cursor set, the lock released; the
\* lock is free whenever a call gets here, so nothing suspends.
UpdatePageKeepsCursor(c, page) ==
    /\ lock = FreeLock
    /\ page_now' = page_now
    /\ lock' = FreeLock
UpdatePage(c, page) ==
    /\ lock = FreeLock
    /\ page_now' = page
    /\ lock' = FreeLock

\* A caller of update_page that is not inside a navigation call.
Outside == NumNavs + 1

\* `await session.update_page(page)` called on the session itself: the
\* method is public and sets the cursor to whatever it is given, with no
\* range test, no cache lookup and no fetch.
UpdatePageCall(page) ==
    /\ fe = "ready"
    /\ UpdatePage(Outside, page)
    /\ out' = NoCall
    /\ pre' = [d \in Navs |-> NoPrev]
    /\ onlyNext' = FALSE
    /\ nexts' = 0
    /\ fresh' = "used"
    /\ firstCall' = NoFirst
    /\ got' = "none"
    /\ UNCHANGED <<site, fe, find_method, query, max_page, cashe, cwrite, npc, target, url,
                   nfetch, ffetch, asMade>>
    /\ UNCHANGED <<fetchVars, aggVars, otherVars>>

(***************************************************************************)
(* next_page / back_page / current_page / select_page / one step of        *)
(* all_page, from the call to its first suspension: the range test,        *)
(* update_page (the lock is free, nothing suspends), the cache lookup and, *)
(* on a miss, the URL built from the cursor and handed to engine.get.      *)
(***************************************************************************)
NavCall(c, o, n) ==
    /\ fe = "ready"
    /\ npc[c] = "idle"
    /\ o \in {"next", "back", "current"} => n = 0
    /\ o = "all" => n \in 1..max_page
    /\ LET page == PageOf(o, n)
           consecutive == onlyNext /\ o = "next" /\ AllIdle /\ nexts < max_page
           before == IF AllIdle /\ out.how # "none" /\ out.page = page
                     THEN [how |-> out.how, ret |-> out.ret, nfetch |-> out.nfetch,
                           dup |-> out.dup]
                     ELSE NoPrev
           ended(h, r) == [page |-> page, how |-> h, ret |-> r, nfetch |-> 0,
                           twin |-> Twins(c, page) # {}, dup |-> FALSE,
                           after |-> before]
           how == CASE OutOfRange(page) -> "reject"
                    [] CacheHas(page) -> "hit"
                    [] OTHER -> "fetch"
       IN  /\ onlyNext' = consecutive
           /\ nexts' = IF consecutive THEN nexts + 1 ELSE 0
           /\ IF OutOfRange(page)
              THEN /\ out' = ended("reject", <<>>)
                   /\ pre' = [d \in Navs |-> NoPrev]
                   /\ UNCHANGED <<page_now, lock, npc, target, url, nfetch>>
              ELSE /\ UpdatePage(c, page)
                   /\ IF CacheHas(page)
                      THEN /\ out' = ended("hit", CacheGet(page))
                           /\ pre' = [d \in Navs |-> NoPrev]
                           /\ UNCHANGED <<npc, target, url, nfetch>>
                      ELSE /\ url' = [url EXCEPT ![c] = BuildPage(page_now')]
                           /\ nfetch' = [nfetch EXCEPT ![c] = @ + 1]
                           /\ target' = [target EXCEPT ![c] = page]
                           /\ npc' = [npc EXCEPT ![c] = "fetching"]
                           /\ pre' = [d \in Navs |-> IF d = c THEN before ELSE NoPrev]
                           /\ UNCHANGED out
           /\ fresh' = "used"
           /\ firstCall' = IF fresh = "new" THEN [op |-> o, how |-> how] ELSE NoFirst
           /\ got' = "none"
           /\ UNCHANGED <<ffetch, asMade>>
    /\ UNCHANGED <<site, fe, find_method, query, max_page, cashe, cwrite, fetchVars, aggVars,
                   otherVars>>

\* A test that never finds the response missing.
IsNoneNever(outcome) == FALSE
\* `(response := await self.engine.get(...)) is None`
IsNone(outcome) == outcome = "absent"

\* A select_page that takes max_page anew from every page it fetches.
MaxPageRefreshed(limit, markup, outcome) ==
    IF outcome \in {"markup", "malformed"} THEN GetMaxPage(markup) ELSE limit
\* self.max_page after select_page got its response: select_page does not
\* assign it.
MaxPageAfter(limit, markup, outcome) == limit

\* select_page after `await self.engine.get(...)`: None gives [], markup is
\* parsed, stored under `page` and returned.
FetchDone(c, outcome) ==
    /\ npc[c] = "fetching"
    /\ LET parsed == ExtractPage(UpstreamMarkup(url[c].page, outcome = "markup"))
           ended(h, r) == [page |-> target[c], how |-> h, ret |-> r,
                           nfetch |-> nfetch[c],
                           twin |-> Twins(c, target[c]) # {},
                           dup |-> CacheHas(target[c]), after |-> pre[c]]
       IN  CASE IsNone(outcome) ->
                  /\ out' = ended("absent", <<>>)
                  /\ UNCHANGED <<cashe, cwrite>>
             [] outcome = "raised" \/ ~parsed.ok ->
                  /\ out' = ended("raised", <<>>)
                  /\ UNCHANGED <<cashe, cwrite>>
             [] OTHER ->
                  /\ out' = ended("page", parsed.val)
                  /\ cashe' = CachePut(cashe, target[c], parsed.val)
                  /\ cwrite' = LockAtWrite(c)
    /\ npc' = [npc EXCEPT ![c] = "idle"]
    /\ target' = [target EXCEPT ![c] = 0]
    /\ url' = [url EXCEPT ![c] = NoUrl]
    /\ nfetch' = [nfetch EXCEPT ![c] = 0]
    /\ pre' = [d \in Navs |-> NoPrev]
    /\ max_page' = MaxPageAfter(max_page,
                                UpstreamMarkup(url[c].page, outcome = "markup"), outcome)
    /\ firstCall' = NoFirst
    /\ got' = IF outcome = "absent" THEN "absent" ELSE "other"
    /\ UNCHANGED <<onlyNext, nexts, ffetch, fresh, asMade>>
    /\ UNCHANGED <<site, fe, find_method, query, page_now, lock, fetchVars, aggVars,
                   otherVars>>

\* TTLCache: time passes and the entry of page k outlives its ttl.
Expire(k) ==
    /\ fe = "ready"
    /\ k \in DOMAIN cashe
    /\ cashe' = CacheDrop(cashe, k)
    /\ out' = NoCall
    /\ pre' = [d \in Navs |-> NoPrev]
    /\ fresh' = "used"
    /\ firstCall' = NoFirst
    /\ got' = "none"
    /\ UNCHANGED <<site, fe, find_method, query, page_now, max_page, lock, cwrite, fetchVars,
                   aggVars, otherVars>>
    /\ UNCHANGED <<npc, target, url, nfetch, onlyNext, nexts, ffetch, asMade, burst>>

NextFind ==
    \/ \E method \in {"query", "genres"}, m \in 1..MaxPages, k \in 0..MaxPages :
           k <= m /\ Find(method, m, 1..k)
    \/ \E outcome \in FetchOutcomes : FindFetched(outcome)
    \/ \E c \in Navs, o \in Ops, n \in 0..(MaxPages + 1) :
           NavCall(c, o, n) /\ UNCHANGED burst
    \/ \E c \in Navs, outcome \in FetchOutcomes : FetchDone(c, outcome) /\ UNCHANGED burst
    \/ \E k \in 1..MaxPages : Expire(k)

SpecFind == InitFind /\ [][NextFind]_vars

(***************************************************************************)
(* The same session with update_page called on it as well (next_page,      *)
(* back_page, current_page, select_page and update_page calls; a fetch     *)
(* gives the page or None), and the runs of next_page calls recorded: a    *)
(* next_page that is not rejected adds the page it asked for to the run,   *)
(* any other call starts a new run at the cursor it leaves.                *)
(***************************************************************************)
NavCallInRun(c, o, n) ==
    /\ NavCall(c, o, n)
    /\ burst' = IF o = "next" /\ ~OutOfRange(PageOf(o, n))
                THEN [burst EXCEPT !.targets = Append(@, PageOf(o, n))]
                ELSE [from |-> page_now', targets |-> <<>>]

\* update_page called directly starts a new run at the cursor it sets.
UpdatePageCallInRun(page) ==
    /\ UpdatePageCall(page)
    /\ burst' = [from |-> page_now', targets |-> <<>>]

NextRun ==
    \/ \E method \in {"query", "genres"}, m \in 1..MaxPages, k \in 0..MaxPages :
           k <= m /\ Find(method, m, 1..k)
    \/ \E outcome \in FetchOutcomes : FindFetched(outcome)
    \/ \E c \in Navs, o \in {"next", "back", "current", "select"}, n \in 0..(MaxPages + 1) :
           NavCallInRun(c, o, n)
    \/ \E page \in 0..(MaxPages + 1) : UpdatePageCallInRun(page)
    \/ \E c \in Navs, outcome \in {"markup", "absent"} :
           FetchDone(c, outcome) /\ UNCHANGED burst

SpecRun == InitFind /\ [][NextRun]_vars

(***************************************************************************)
(* One search session with the TTLCache's clock, capacity and order of     *)
(* use, its callers and its all_page generators.  select_page is two       *)
(* steps: from the call to its return or to `await self.engine.get`, and   *)
(* from the answer to the return; other calls and the clock run between.   *)
(***************************************************************************)
\* `max_size or self.MAX_SIZE`, `ttl or self.TTL`
InitMaxSize(arg) == OrDefault(arg, MAX_SIZE)
InitTtl(arg) == OrDefault(arg, TTL)

\* TTLCache.expire(time): the entries still alive at time t.
Live(ls, t) == SelectSeq(ls, LAMBDA e : t < e.expires)

HasKey(ls, k) == \E i \in 1..Len(ls) : ls[i].key = k

\* The entry of page k.
Entry(k) == links[CHOOSE i \in 1..Len(links) : links[i].key = k]

\* A cache that forgets to look at the clock.
ContainsIgnoringTtl(k, t) == HasKey(links, k)
\* TTLCache.__contains__: the key is linked and its time has not come; the
\* test is no use of the entry.
Contains(k, t) == HasKey(links, k) /\ t < Entry(k).expires

\* TTLCache.__getitem__ (`self.cashe[page]`): a use of the entry, which
\* becomes the one used last.
Touch(ls, k) ==
    SelectSeq(ls, LAMBDA e : e.key # k) \o SelectSeq(ls, LAMBDA e : e.key = k)

\* A cache that grows instead of making room.
SetItemNoEvict(ls, k, t) ==
    Append(SelectSeq(Live(ls, t), LAMBDA e : e.key # k),
           [key |-> k, at |-> t, expires |-> t + ttl])
\* TTLCache.__setitem__ at time t: expired entries go, then, for a new key in
\* a full cache, the entry used longest ago (ls is in order of use, a write
\* being a use); the key is linked last.
SetItem(ls, k, t) ==
    LET live == Live(ls, t)
        kept == IF HasKey(live, k) THEN SelectSeq(live, LAMBDA e : e.key # k)
                ELSE IF Len(live) + 1 > maxsize THEN Tail(live)
                ELSE live
    IN  Append(kept, [key |-> k, at |-> t, expires |-> t + ttl])

\* The pages of ls that are alive at t and missing from after.
Removed(ls, after, t) ==
    {Live(ls, t)[i].key : i \in 1..Len(Live(ls, t))} \ {after[i].key : i \in 1..Len(after)}

\* range(1, self.max_page + 1)
AllPageFirst == 1
AllPageLastExclusive == tmax - 1
AllPageLast == tmax

\* select_page(n) goes on to `await self.engine.get`: n is a page of the
\* session and is not in the cache.
Suspends(n) == ~(n < 1 \/ n > tmax) /\ ~Contains(n, tnow)

InitCache ==
    /\ IdleFetch /\ IdleFind /\ IdleAgg /\ IdlePace /\ IdleDetail /\ IdleReg /\ IdleMother
    /\ tnow = 0
    /\ \E arg \in 0..MaxSizeArg : maxsize = InitMaxSize(arg)
    /\ \E arg \in 0..MaxTtlArg : ttl = InitTtl(arg)
    /\ tmax \in 1..MaxPages
    /\ links = <<[key |-> 1, at |-> 0, expires |-> ttl]>>
    /\ tcur = 1
    /\ evicted = {}
    /\ gen = [g \in Gens |-> NoGen]
    /\ tout = NoSelect
    /\ tsel = EmptyBag

(***************************************************************************)
(* select_page(n) from the call to its return or to its await: the range   *)
(* test, update_page, the cache test and, on a hit, the read of the entry. *)
(* `late`: the clock moves between `page in self.cashe` and                *)
(* `self.cashe[page]`, and the entry is gone (KeyError).                   *)
(***************************************************************************)
SelectPageT(n, late) ==
    IF n < 1 \/ n > tmax
    THEN /\ ~late
         /\ UNCHANGED <<tnow, tcur, links, evicted>>
    ELSE /\ tcur' = n
         /\ IF Contains(n, tnow)
            THEN /\ late => (tnow < MaxClock /\ Entry(n).expires = tnow + 1)
                 /\ tnow' = IF late THEN tnow + 1 ELSE tnow
                 /\ links' = Touch(links, n)
                 /\ UNCHANGED evicted
            ELSE /\ ~late
                 /\ UNCHANGED <<tnow, links, evicted>>

\* How that part of select_page(n) ends: [] for a page out of range, the
\* cached page, the KeyError, or no end yet.
SelectPageTEnd(n, late) ==
    IF n < 1 \/ n > tmax THEN "reject"
    ELSE IF ~Contains(n, tnow) THEN "none"
    ELSE IF late THEN "raised"
    ELSE "hit"

(***************************************************************************)
(* select_page(page) after `await self.engine.get(...)`: None gives [],    *)
(* markup is parsed and stored under `page` at the time it is now, and     *)
(* returned.                                                               *)
(***************************************************************************)
SelectPageGot(page, outcome) ==
    /\ IF outcome = "markup"
       THEN /\ links' = SetItem(links, page, tnow)
            /\ evicted' = (evicted \cup Removed(links, links', tnow)) \ {page}
       ELSE UNCHANGED <<links, evicted>>
    /\ UNCHANGED <<tnow, tcur>>

\* How select_page ends after the answer: [], the exception of the
\* transport or of parse_page, or the parsed page.
SelectPageGotEnd(outcome) ==
    CASE outcome = "absent" -> "absent"
      [] outcome = "markup" -> "page"
      [] OTHER -> "raised"

\* select_page(n) is called on the session: it returns at once or joins the
\* calls that wait for engine.get (no more than NumNavs of them at a time).
TSelect(n, late) ==
    /\ Suspends(n) => BagCardinality(tsel) < NumNavs
    /\ SelectPageT(n, late)
    /\ tout' = [page |-> IF Suspends(n) THEN 0 ELSE n, how |-> SelectPageTEnd(n, late)]
    /\ tsel' = IF Suspends(n) THEN tsel (+) SetToBag({n}) ELSE tsel
    /\ UNCHANGED <<maxsize, ttl, tmax, gen>>
    /\ UNCHANGED <<fetchVars, findVars, aggVars, paceVars, detailVars, regVars, motherVars>>

\* engine.get answers a select_page(page) called on the session.
TFetched(page, outcome) ==
    /\ BagIn(page, tsel)
    /\ SelectPageGot(page, outcome)
    /\ tout' = [page |-> page, how |-> SelectPageGotEnd(outcome)]
    /\ tsel' = tsel (-) SetToBag({page})
    /\ UNCHANGED <<maxsize, ttl, tmax, gen>>
    /\ UNCHANGED <<fetchVars, findVars, aggVars, paceVars, detailVars, regVars, motherVars>>

\* all_page(): a new generator; nothing of its body has run.
AllPage(g) ==
    /\ gen[g].st = "none"
    /\ gen' = [gen EXCEPT ![g].st = "open"]
    /\ tout' = NoSelect
    /\ UNCHANGED <<tnow, maxsize, ttl, links, tmax, tcur, evicted, tsel>>
    /\ UNCHANGED <<fetchVars, findVars, aggVars, paceVars, detailVars, regVars, motherVars>>

\* The caller asks generator g for its next element: the loop makes one more
\* select_page call, which returns (the element is yielded, or its exception
\* ends the generator) or waits for engine.get; or the range is used up and
\* the generator ends.
GenNext(g, late) ==
    /\ gen[g].st = "open"
    /\ LET page == AllPageFirst + gen[g].pos
       IN  IF page > AllPageLast
           THEN /\ ~late
                /\ gen' = [gen EXCEPT ![g].st = "ended"]
                /\ UNCHANGED <<tnow, tcur, links, evicted>>
           ELSE /\ SelectPageT(page, late)
                /\ gen' = [gen EXCEPT ![g] =
                              [st |-> CASE SelectPageTEnd(page, late) = "none" -> "waiting"
                                        [] SelectPageTEnd(page, late) = "raised" -> "raised"
                                        [] OTHER -> "open",
                               pos |-> IF SelectPageTEnd(page, late) \in {"none", "raised"}
                                       THEN @.pos ELSE @.pos + 1,
                               calls |-> @.calls + 1,
                               sel |-> page]]
    /\ tout' = NoSelect
    /\ UNCHANGED <<maxsize, ttl, tmax, tsel>>
    /\ UNCHANGED <<fetchVars, findVars, aggVars, paceVars, detailVars, regVars, motherVars>>

\* engine.get answers the select_page generator g waits in: its result is
\* yielded, or its exception ends the generator.
GenGot(g, outcome) ==
    /\ gen[g].st = "waiting"
    /\ SelectPageGot(gen[g].sel, outcome)
    /\ gen' = [gen EXCEPT ![g] =
                  IF SelectPageGotEnd(outcome) = "raised"
                  THEN [@ EXCEPT !.st = "raised"]
                  ELSE [@ EXCEPT !.st = "open", !.pos = @ + 1]]
    /\ tout' = NoSelect
    /\ UNCHANGED <<maxsize, ttl, tmax, tsel>>
    /\ UNCHANGED <<fetchVars, findVars, aggVars, paceVars, detailVars, regVars, motherVars>>

\* Time passes.
Tick ==
    /\ tnow < MaxClock
    /\ tnow' = tnow + 1
    /\ tout' = NoSelect
    /\ UNCHANGED <<maxsize, ttl, links, tmax, tcur, evicted, gen, tsel>>
    /\ UNCHANGED <<fetchVars, findVars, aggVars, paceVars, detailVars, regVars, motherVars>>

\* The session and its clock: select_page calls, their answers, and time
\* passing between any two of these steps.
NextCache ==
    \/ \E n \in 0..(MaxPages + 1), late \in BOOLEAN : TSelect(n, late)
    \/ \E page \in BagToSet(tsel), outcome \in FetchOutcomes : TFetched(page, outcome)
    \/ Tick

SpecCache == InitCache /\ [][NextCache]_vars

\* The session and its generators, within the lifetime of the cache entries.
InitAll == InitCache /\ maxsize = MAX_SIZE /\ ttl = TTL

NextAll ==
    \/ \E n \in 0..(MaxPages + 1) : TSelect(n, FALSE)
    \/ \E page \in BagToSet(tsel), outcome \in FetchOutcomes : TFetched(page, outcome)
    \/ \E g \in Gens : AllPage(g)
    \/ \E g \in Gens : GenNext(g, FALSE)
    \/ \E g \in Gens, outcome \in FetchOutcomes : GenGot(g, outcome)

SpecAll == InitAll /\ [][NextAll]_vars

\* C15: a page is served from the cache only while it is younger than the
\* ttl, so a select_page(n) made once the entry of n has outlived its ttl
\* is no hit: it fetches, and when the fetch gives the page the fresh result
\* is stored with a lifetime of its own.
C15_NothingServedPastTtl ==
    /\ tout.how = "hit" =>
           /\ HasKey(links, tout.page)
           /\ tnow - Entry(tout.page).at < ttl
    /\ tout.how = "page" =>
           /\ HasKey(links, tout.page)
           /\ Entry(tout.page).at = tnow
           /\ Entry(tout.page).expires = tnow + ttl

\* C15 witness: in a cache with room for all pages, page 1, stored at time 0
\* with ttl 1, was asked for at time 1 or later, fetched anew and stored
\* just now.
C15_Witness ==
    /\ ttl = 1
    /\ maxsize = MAX_SIZE
    /\ tnow >= 1
    /\ tout = [page |-> 1, how |-> "page"]
    /\ Entry(1).at = tnow

\* C16: the cache never holds more than maxsize pages, each page at most
\* once: storing into a full cache removes an entry; and a page that was
\* removed to make room is not in the cache, so that a select_page of it is
\* no hit and fetches it again.
C16_CacheWithinCapacity ==
    /\ Len(links) <= maxsize
    /\ \A i, j \in 1..Len(links) : links[i].key = links[j].key => i = j
    /\ \A n \in evicted : ~HasKey(links, n)
    /\ tout.how = "hit" => tout.page \notin evicted

\* C16 witness: with room for two pages whose lifetime does not end, page 1,
\* stored by the factory, was removed to make room, asked for again, fetched
\* and stored just now, which removed another page.
C16_Witness ==
    /\ maxsize = 2
    /\ ttl = TTL
    /\ Len(links) = 2
    /\ tout = [page |-> 1, how |-> "page"]
    /\ evicted # {}

\* C17: an all_page() generator yields the results of select_page(1),
\* select_page(2), .. in this order, one select_page call per element asked
\* for and none before; once it has yielded max_page elements it ends; and
\* a generator made by another all_page() call starts from page 1 again.
C17_AllPageYieldsEachPageOnce ==
    \A g \in Gens :
        /\ gen[g].pos <= tmax
        /\ gen[g].st = "ended" => gen[g].pos = tmax
        /\ gen[g].st = "none" => (gen[g].pos = 0 /\ gen[g].calls = 0)
        /\ gen[g].calls = gen[g].pos + (IF gen[g].st \in {"raised", "waiting"} THEN 1 ELSE 0)
        /\ gen[g].sel = gen[g].calls

\* C17 witness: over three pages one generator has yielded three elements
\* and ended; a second one, made meanwhile, has yielded page 1 and waits
\* for page 2, and the cursor has been moved to page 3 under it.
C17_Witness ==
    /\ tmax = 3
    /\ gen[1].st = "ended"
    /\ gen[1].pos = 3
    /\ gen[2].st = "waiting"
    /\ gen[2].pos = 1
    /\ gen[2].sel = 2
    /\ tcur = 3

(***************************************************************************)
(* Claims about the search session, checked under SpecFind.                *)
(***************************************************************************)
\* The parsed summaries of results page p of the site.
Summaries(p) ==
    [i \in 1..ItemsPerPage |-> [title |-> <<p, i>>, poster |-> <<p, i>>, url |-> <<p, i>>]]

Returned(h) == h \in {"hit", "page", "absent"}

\* C5 as stated: of two select_page(n) calls for a valid page made in
\* succession with no TTL expiry in between, at most one fetches, and the
\* second returns what the first returned.
C5_AtMostOneFetch ==
    Returned(out.after.how) =>
        /\ out.after.nfetch + out.nfetch <= 1
        /\ Returned(out.how)
        /\ out.ret = out.after.ret

\* C5 amended: when the first of two select_page(n) calls made in succession
\* (no TTL expiry in between) returned the page, from its fetch or from the
\* cache, the second call issues no fetch and returns the identical result,
\* so the two calls fetch at most once; when the fetch of the first call
\* gave absent and no concurrent call had stored the page meanwhile, nothing
\* is cached and the second call fetches again.
C5_RepeatIsCacheHit ==
    /\ out.after.how \in {"hit", "page"} =>
           /\ out.how = "hit"
           /\ out.nfetch = 0
           /\ out.after.nfetch + out.nfetch <= 1
           /\ out.ret = out.after.ret
    /\ (out.after.how = "absent" /\ ~out.after.dup) => out.nfetch = 1

\* C5 witness: a call fetched page n and returned it, and the next call for
\* page n has returned from the cache.
C5_Witness ==
    /\ out.after.how = "page"
    /\ out.after.nfetch = 1
    /\ out.how = "hit"
    /\ out.ret # <<>>

\* C6: select_page(n) with n < 1 or n > max_page returns an empty sequence:
\* it never raises and never goes on to the fetch.
C6_OutOfRangeEmpty ==
    /\ (out.how # "none" /\ (out.page < 1 \/ out.page > max_page)) =>
           (out.how = "reject" /\ out.ret = <<>> /\ out.nfetch = 0)
    /\ \A c \in Navs : npc[c] = "fetching" => (1 <= target[c] /\ target[c] <= max_page)

\* C6 witness: select_page(max_page + 1) has returned the empty sequence.
C6_Witness ==
    /\ fe = "ready"
    /\ out.how = "reject"
    /\ out.page = max_page + 1
    /\ out.ret = <<>>

\* C7: once the factory has returned the session, the cursor stays within
\* 1..max_page in every interleaving of next_page, back_page, current_page,
\* select_page and all_page calls (SpecFind has these calls and no other;
\* update_page called on the session itself sets the cursor to any number,
\* see UpdatePageCall).
C7_CursorInRange == fe = "ready" => (1 <= page_now /\ page_now <= max_page)

\* C7 witness: the cursor has been moved to the last of three pages while
\* two navigation calls are inside select_page.
C7_Witness ==
    /\ fe = "ready"
    /\ page_now = max_page
    /\ max_page = 3
    /\ \E c, d \in Navs : c # d /\ npc[c] = "fetching" /\ npc[d] = "fetching"

\* C9 as stated: a session over an m-page result set reports max_page = m;
\* the j-th of j consecutive next_page calls, j <= m - 1, returns the parsed
\* summaries of page 1 + j; next_page at the last page returns empty.
C9_NextPageScenario ==
    fe = "ready" =>
        /\ max_page = site.pages
        /\ (onlyNext /\ nexts >= 1 /\ AllIdle /\ out.how # "none") =>
               /\ nexts <= site.pages - 1 => out.ret = Summaries(1 + nexts)
               /\ nexts = site.pages => out.ret = <<>>

\* C9 amended: the session reports as max_page the largest numeric page link
\* of the first results page (1 when it has none), which is m when page 1
\* links the last page by number; the j-th of j consecutive next_page calls,
\* j <= max_page - 1, moves the cursor to page 1 + j and returns the parsed
\* summaries of that page when its fetch gives the page or the page is
\* cached, and an empty sequence when its fetch gives absent; next_page with
\* the cursor at max_page returns an empty sequence and leaves the cursor.
C9_NextPageByLinks ==
    fe = "ready" =>
        /\ max_page >= 1
        /\ \A l \in site.labels : l <= max_page
        /\ max_page \in site.labels \/ (site.labels = {} /\ max_page = 1)
        /\ site.pages \in site.labels => max_page = site.pages
        /\ (onlyNext /\ nexts >= 1) =>
               /\ nexts <= max_page
               /\ nexts <= max_page - 1 =>
                      /\ page_now = 1 + nexts
                      /\ \A c \in Navs : npc[c] = "fetching" =>
                             (target[c] = 1 + nexts /\ url[c].page = 1 + nexts)
                      /\ (AllIdle /\ out.how # "none") =>
                             /\ out.page = 1 + nexts
                             /\ out.how \in {"hit", "page"} => out.ret = Summaries(1 + nexts)
                             /\ out.how = "absent" => out.ret = <<>>
               /\ nexts = max_page =>
                      /\ page_now = max_page
                      /\ AllIdle
                      /\ out.how # "none" =>
                             (out.how = "reject" /\ out.ret = <<>> /\ out.page = max_page + 1)

\* C9 witness: over a 3-page result set whose first page links page 3, two
\* next_page calls have moved the cursor to page 3 and the third next_page
\* has returned the empty sequence.
C9_Witness ==
    /\ fe = "ready"
    /\ site.pages = 3
    /\ max_page = 3
    /\ onlyNext
    /\ nexts = 3
    /\ page_now = 3
    /\ out.how = "reject"
    /\ Summaries(3) \in {cashe[k] : k \in DOMAIN cashe}

\* C10 as stated: each of two concurrent select_page(n) calls for the same
\* valid page returns page n's parsed result, the two fetch at most twice,
\* and the cache holds one entry for n, equal to that result.
C10_TwinCallsReturnPage ==
    (out.twin \/ out.dup) =>
        /\ out.how \in {"hit", "page"}
        /\ out.ret = Summaries(out.page)
        /\ out.nfetch <= 1
        /\ CacheHas(out.page)
        /\ CacheGet(out.page) = Summaries(out.page)

\* C10 amended: of two concurrent select_page(n) calls for the same valid
\* page, each call whose fetch gives the page (or that finds the page
\* cached) returns page n's parsed result and leaves it in the cache; a call
\* whose fetch gives absent returns an empty sequence and stores nothing;
\* each call fetches at most once, for the URL of page n; and every cache
\* entry, whichever call wrote it last, is the parsed result of its own page.
C10_TwinCallsConsistent ==
    /\ out.how \in {"hit", "page"} =>
           /\ out.ret = Summaries(out.page)
           /\ CacheHas(out.page)
    /\ out.how = "absent" => out.ret = <<>>
    /\ out.nfetch <= 1
    /\ \A k \in DOMAIN cashe : cashe[k] = Summaries(k)
    /\ \A c \in Navs : npc[c] = "fetching" =>
           (nfetch[c] = 1 /\ url[c].page = target[c])

\* C10 witness: a select_page(n) call has fetched and returned page n although
\* a concurrent call for the same page had stored it meanwhile (the duplicate
\* fetch).
C10_Witness ==
    /\ out.dup
    /\ out.how = "page"
    /\ out.nfetch = 1
    /\ CacheGet(out.page) = out.ret

\* C11 as stated: every write to the session's page cache is made while the
\* writing call holds the session lock.
C11_CacheWritesUnderLock == cwrite # "unlocked"

\* C25: whatever the interleaving of the callers, every cache entry under
\* key n is the parsed content of results page n, the URL a call fetches on a
\* miss for n is the URL of page n, and a call that fetched returns the
\* content of the page it was asked for.
C25_EntriesAndFetchesOfOwnPage ==
    /\ \A k \in DOMAIN cashe : cashe[k] = Summaries(k)
    /\ \A c \in Navs :
           npc[c] = "fetching" => url[c] = [kind |-> find_method, page |-> target[c]]
    /\ out.how = "page" => out.ret = Summaries(out.page)

\* C25 witness: a call that fetched page n returned and stored it after
\* another call had moved the cursor elsewhere.
C25_Witness ==
    /\ out.how = "page"
    /\ out.page # page_now
    /\ out.page \in DOMAIN cashe
    /\ \E c \in Navs : npc[c] = "fetching" /\ target[c] = page_now

\* C26: j next_page calls issued in a row on a session whose cursor is p,
\* concurrently or not, with p + j <= max_page, ask for the pages p+1..p+j and
\* leave the cursor at p + j.
C26_NoLostCursorUpdate ==
    LET j == Len(burst.targets) IN
    (fe = "ready" /\ j > 0 /\ burst.from + j <= max_page) =>
        /\ page_now = burst.from + j
        /\ \A i \in 1..j : burst.targets[i] = burst.from + i

\* C26 witness: two next_page calls are in flight at once, for the two pages
\* that follow the cursor they started from.
C26_Witness ==
    /\ Len(burst.targets) = 2
    /\ \E c, d \in Navs :
           /\ npc[c] = "fetching" /\ target[c] = burst.targets[1]
           /\ npc[d] = "fetching" /\ target[d] = burst.targets[2]
    /\ page_now = burst.from + 2

\* C27: a call whose page is below 1 or above max_page is rejected: it ends
\* at once, with no fetch, and leaves the cursor, the cache and the calls in
\* flight as they were.
C27_RejectedCallChangesNothing ==
    [][(/\ out' # out
        /\ out'.how # "none"
        /\ (out'.page < 1 \/ out'.page > max_page))
       => (/\ out'.how = "reject"
           /\ out'.ret = <<>>
           /\ out'.nfetch = 0
           /\ UNCHANGED <<page_now, cashe, npc, url, nfetch, max_page>>)]_vars

\* C27 witness: next_page at the last page of a session of several pages.
C27_Witness ==
    /\ out.how = "reject"
    /\ out.page = max_page + 1
    /\ page_now = max_page
    /\ max_page >= 2
    /\ Cardinality(DOMAIN cashe) >= 2

\* C28: a select_page(n) for a valid page not in the cache moves the cursor
\* to n before it fetches; when its fetch gives None it returns an empty
\* list and leaves the cache as it was, and the select_page(n) that follows
\* it fetches again.
C28_AbsentMovesCursorOnly ==
    [][/\ \A c \in Navs :
           (npc[c] = "idle" /\ npc'[c] = "fetching") =>
               (page_now' = target'[c] /\ target'[c] \notin DOMAIN cashe)
       /\ got' = "absent" =>
           /\ out'.how = "absent"
           /\ out'.ret = <<>>
           /\ out'.nfetch = 1
           /\ UNCHANGED <<cashe, page_now>>
       /\ (out'.after.how = "absent" /\ ~out'.after.dup) => out'.nfetch = 1]_vars

\* C28 witness: select_page(n) got None and returned; the cursor is at n and
\* n is not in the cache.
C28_Witness ==
    /\ got = "absent"
    /\ out.how = "absent"
    /\ out.page = page_now
    /\ out.page \notin DOMAIN cashe
    /\ out.page >= 2

\* C29: a session the factory returned has made one fetch, has a max_page
\* of at least 1, and, until the first call or expiry, its cursor at 1 and
\* page 1 in its cache; a current_page() made first is served from the cache
\* with no fetch.
C29_FactoryLeavesFirstPage ==
    /\ fe = "ready" => (ffetch = 1 /\ asMade.max_page >= 1 /\ max_page # -1)
    /\ fresh = "new" =>
           /\ fe = "ready"
           /\ page_now = 1
           /\ max_page >= 1
           /\ 1 \in DOMAIN cashe
           /\ cashe[1] = Summaries(1)
    /\ firstCall.op = "current" =>
           /\ firstCall.how = "hit"
           /\ out.how = "hit" /\ out.page = 1 /\ out.nfetch = 0
           /\ out.ret = Summaries(1)
           /\ AllIdle

\* C29 witness: current_page() is the first call on a session find_genres
\* returned for a search of several pages, and it is a cache hit.
C29_Witness ==
    /\ firstCall = [op |-> "current", how |-> "hit"]
    /\ find_method = "genres"
    /\ max_page >= 2

\* C30: query, find_method and max_page of a session stay as the factory
\* left them, whatever navigation is made and whatever the pages fetched
\* later link to.
C30_SessionParametersKept ==
    fe = "ready" =>
        /\ query = asMade.query
        /\ find_method = asMade.find_method
        /\ max_page = asMade.max_page
        /\ asMade.query = QueryOf(asMade.find_method)

\* C30 witness: a page fetched later links further than the first page did.
C30_Witness ==
    /\ fe = "ready"
    /\ out.how = "page"
    /\ out.page >= 2
    /\ GetMaxPage(UpstreamMarkup(out.page, TRUE)) > max_page

(***************************************************************************)
(* BaseSpider.get_manga_full: the manga, then all its chapters at once.    *)
(***************************************************************************)
\* What a chapter task can come to: a chapter, None, or an exception.
TaskOutcomes == {"chapter", "absent", "raised"}

\* A task that has not completed, and what a completed task holds.
Pending == [state |-> "pending", result |-> [url |-> 0, gallery |-> <<>>]]
Completed(outcome, chapter) == [state |-> outcome, result |-> chapter]

\* mixed_chapters = {x.url: x for x in chapters}: a later chapter replaces an
\* earlier one with the same url.
MixedChapters(chapters) ==
    [u \in {chapters[i].url : i \in 1..Len(chapters)} |->
        chapters[Max({i \in 1..Len(chapters) : chapters[i].url = u})]]

\* The chapters in the order the tasks completed, with no re-keying.
ReassembleAsCompleted(chapters, urls) == [k \in 1..Len(urls) |-> chapters[order[k]]]
\* [mixed_chapters[x] for x in manga.chapters]
Reassemble(chapters, urls) == [k \in 1..Len(urls) |-> MixedChapters(chapters)[urls[k]]]

InitAgg == IdleFetch /\ IdleFind /\ IdleAgg /\ IdleOther

\* get_manga_full(url) up to the await inside get_manga.
GetMangaFull ==
    /\ apc = "idle"
    /\ apc' = "detail"
    /\ UNCHANGED <<chapterUrls, tasks, order, full, aerr, fetchVars, findVars, otherVars>>

\* get_manga returns: None makes manga.chapters raise; a manga starts one task
\* per chapter link and awaits gather.
MangaFetched(found, urls) ==
    /\ apc = "detail"
    /\ IF ~found
       THEN /\ apc' = "raised"
            /\ aerr' = "manga"
            /\ UNCHANGED <<chapterUrls, tasks>>
       ELSE /\ apc' = "gather"
            /\ chapterUrls' = urls
            /\ tasks' = [i \in 1..Len(urls) |-> Pending]
            /\ UNCHANGED aerr
    /\ UNCHANGED <<order, full, fetchVars, findVars, otherVars>>

\* `manga = await self.get_manga(url)` ends, with None or with a manga of
\* up to MaxChapters chapter links, repeated links included.
MangaAwaited ==
    /\ apc = "detail"
    /\ \E found \in BOOLEAN, m \in 0..MaxChapters :
          \E urls \in [1..m -> ChapterUrlSet] : MangaFetched(found, urls)

\* One get_manga_chapter task completes, with a chapter, None or an
\* exception.  The tasks run on their own: gather does not cancel the others
\* when one raises, so they go on completing while get_manga_full has not
\* yet resumed and after it raised.
ChapterDone(i, outcome) ==
    /\ apc \in {"gather", "raised"}
    /\ i \in 1..Len(tasks)
    /\ tasks[i] = Pending
    /\ tasks' = [tasks EXCEPT ![i] =
                    IF outcome = "chapter"
                    THEN Completed(outcome, ExtractChapter(ChapterMarkup(chapterUrls[i]),
                                                           chapterUrls[i]))
                    ELSE Completed(outcome, Pending.result)]
    /\ order' = Append(order, i)
    /\ UNCHANGED <<apc, aerr, chapterUrls, full, fetchVars, findVars, otherVars>>

\* `await asyncio.gather(*tasks)` raises: a task ended with an exception,
\* gather (without return_exceptions) passes it on and get_manga_full
\* resumes with it, in a later pass of the event loop than the task's end.
GatherRaised ==
    /\ apc = "gather"
    /\ \E i \in 1..Len(tasks) : tasks[i].state = "raised"
    /\ apc' = "raised"
    /\ aerr' = "task"
    /\ UNCHANGED <<chapterUrls, tasks, order, full, fetchVars, findVars, otherVars>>

\* A comprehension that leaves the None results out.
UrlRaisesNever(ts) == FALSE
\* `x.url for x in chapters`: AttributeError when a gathered result is None.
UrlRaises(ts) == \E i \in 1..Len(ts) : ts[i].state # "chapter"

\* The gathered results that are chapters, in task order.
RECURSIVE Chapters(_)
Chapters(ts) ==
    IF ts = <<>> THEN <<>>
    ELSE IF Head(ts).state = "chapter"
         THEN <<Head(ts).result>> \o Chapters(Tail(ts))
         ELSE Chapters(Tail(ts))

\* gather returns, every task having completed without an exception, the
\* results in task order; x.url raises on a None, else the chapters are
\* keyed by url and put back in the order of manga.chapters (a link with no
\* chapter under it is a KeyError).
Gathered ==
    /\ apc = "gather"
    /\ \A i \in 1..Len(tasks) : tasks[i].state \in {"chapter", "absent"}
    /\ LET chapters == Chapters(tasks)
           keys == {chapters[i].url : i \in 1..Len(chapters)}
       IN  IF UrlRaises(tasks)
           THEN /\ apc' = "raised"
                /\ aerr' = "chapter"
                /\ UNCHANGED full
           ELSE IF \E k \in 1..Len(chapterUrls) : chapterUrls[k] \notin keys
           THEN /\ apc' = "raised"
                /\ aerr' = "key"
                /\ UNCHANGED full
           ELSE /\ apc' = "returned"
                /\ full' = Reassemble(chapters, chapterUrls)
                /\ UNCHANGED aerr
    /\ UNCHANGED <<chapterUrls, tasks, order, fetchVars, findVars, otherVars>>

NextAgg ==
    \/ GetMangaFull
    \/ MangaAwaited
    \/ \E i \in 1..MaxChapters, outcome \in TaskOutcomes : ChapterDone(i, outcome)
    \/ GatherRaised
    \/ Gathered

SpecAgg == InitAgg /\ [][NextAgg]_vars

\* C8: when get_manga_full returns for a manga with chapter links u1..um, the
\* chapters it returns are m in number and the i-th is the chapter fetched
\* from ui, in whatever order the m chapter tasks completed.
C8_ChaptersInLinkOrder ==
    apc = "returned" =>
        /\ Len(full) = Len(chapterUrls)
        /\ \A i \in 1..Len(chapterUrls) :
               /\ full[i].url = chapterUrls[i]
               /\ full[i].gallery = <<chapterUrls[i], chapterUrls[i]>>

\* C31: get_manga_full returns only when the manga and every chapter were
\* fetched, and then with one chapter per link of manga.chapters, none of
\* them missing; a manga that is None, or one chapter that is None, makes
\* the call raise and nothing is returned, whether the None is met in the
\* gathered results or a task's exception ended the wait before.
C31_AllOrNothing ==
    /\ apc = "returned" =>
           /\ aerr = "none"
           /\ Len(tasks) = Len(chapterUrls)
           /\ \A i \in 1..Len(tasks) : tasks[i].state = "chapter"
           /\ Len(full) = Len(chapterUrls)
           /\ \A i \in 1..Len(full) :
                  full[i] = ExtractChapter(ChapterMarkup(chapterUrls[i]), chapterUrls[i])
    /\ aerr # "none" => (apc = "raised" /\ full = <<>>)
    /\ aerr = "manga" => tasks = <<>>
    /\ aerr = "task" => \E i \in 1..Len(tasks) : tasks[i].state = "raised"
    /\ aerr = "chapter" =>
           /\ \A i \in 1..Len(tasks) : tasks[i].state \in {"chapter", "absent"}
           /\ \E i \in 1..Len(tasks) : tasks[i].state = "absent"
    /\ (apc # "gather" /\ \E i \in 1..Len(tasks) : tasks[i].state = "absent") =>
           (apc = "raised" /\ aerr \in {"chapter", "task"})
    /\ aerr # "key"

\* C31 witness: of three chapter fetches, all completed, the first and the
\* last gave a chapter and the second gave None: the call raised.
C31_Witness ==
    /\ apc = "raised"
    /\ aerr = "chapter"
    /\ Len(tasks) = 3
    /\ tasks[1].state = "chapter"
    /\ tasks[2].state = "absent"
    /\ tasks[3].state = "chapter"
    /\ full = <<>>

\* C8 witness: three chapters with different links were fetched, the tasks
\* completed in the reverse of the link order, and get_manga_full returned.
C8_Witness ==
    /\ apc = "returned"
    /\ Len(chapterUrls) = 3
    /\ Cardinality({chapterUrls[i] : i \in 1..3}) = 3
    /\ order = <<3, 2, 1>>
    /\ Len(full) = 3

(***************************************************************************)
(* BaseParserMother.__init__ (src/core/abstract/parser.py): the three      *)
(* class attributes are tested with issubclass and then instantiated.      *)
(***************************************************************************)

\* What a class attribute of a mother can be: a concrete subclass of the
\* role's base class, a subclass that leaves an abstract method of the base
\* undefined, a class that is not a subclass of the base (another role's
\* parser, say), an object that is not a class, or nothing (the attribute is
\* only annotated in BaseParserMother).
RoleKinds == {"ok", "abstract", "other", "object", "unset"}

\* A test that lets through any class.
RoleTestAnyClass(kind) ==
    CASE kind = "unset" -> "AttributeError"
      [] kind = "object" -> "TypeError"
      [] OTHER -> "none"

\* `if not issubclass(self.X_PARSER, BaseXParser): raise TypeError`: what the
\* test raises, "none" when it passes.  Reading an unset attribute raises
\* AttributeError; issubclass of an object that is not a class raises
\* TypeError.
RoleTest(kind) ==
    CASE kind = "unset" -> "AttributeError"
      [] kind = "object" -> "TypeError"
      [] kind = "other" -> "TypeError"
      [] OTHER -> "none"

\* self.X_PARSER(base_url = .., features = ..): a class with an abstract
\* method left cannot be instantiated.
RoleMake(kind) ==
    IF kind = "abstract" THEN "TypeError" ELSE "none"

\* BaseParserMother.__init__: the three tests in order, then the three
\* instantiations in order; the first exception leaves the constructor.
ParserMotherInit(rs) ==
    CASE RoleTest(rs["manga"]) # "none" -> RoleTest(rs["manga"])
      [] RoleTest(rs["page"]) # "none" -> RoleTest(rs["page"])
      [] RoleTest(rs["chapter"]) # "none" -> RoleTest(rs["chapter"])
      [] RoleMake(rs["manga"]) # "none" -> RoleMake(rs["manga"])
      [] RoleMake(rs["page"]) # "none" -> RoleMake(rs["page"])
      [] RoleMake(rs["chapter"]) # "none" -> RoleMake(rs["chapter"])
      [] OTHER -> "mother"

InitMother ==
    /\ IdleFetch /\ IdleFind /\ IdleAgg /\ IdlePace /\ IdleDetail /\ IdleCache /\ IdleReg
    /\ roles \in [Roles -> RoleKinds]
    /\ built = "new"
    /\ served = "none"

\* parser(self.BASE_URL, self.features)
MotherInit ==
    /\ built = "new"
    /\ built' = ParserMotherInit(roles)
    /\ UNCHANGED <<roles, served>>
    /\ UNCHANGED <<fetchVars, findVars, aggVars, paceVars, detailVars, cacheVars, regVars>>

\* parse_manga / parse_page / parse_chapter of a constructed mother: the call
\* goes to the parser of the role.
Parse(role) ==
    /\ built = "mother"
    /\ served' = role
    /\ UNCHANGED <<roles, built>>
    /\ UNCHANGED <<fetchVars, findVars, aggVars, paceVars, detailVars, cacheVars, regVars>>

NextMother ==
    \/ MotherInit
    \/ \E role \in Roles : Parse(role)

SpecMother == InitMother /\ [][NextMother]_vars

(***************************************************************************)
(* MangaService (src/core/service/manga.py) and BaseSpider.__init__        *)
(* (src/core/abstract/spider.py): the service constructs one spider of     *)
(* each class it was given, keeps those whose construction did not raise,  *)
(* and routes a request to the first loaded spider of the request's        *)
(* domain.                                                                 *)
(***************************************************************************)

\* BaseSpider.BASE_URL, which a subclass must override.
PlaceholderUrl == "https://example.manga"

BaseUrls == {PlaceholderUrl, "https://a.manga", "https://b.manga"}

\* The URLs of pages requests are made for: one on the host of each base
\* URL and one on a host that no spider has.
RequestUrls == {"https://example.manga/1.html", "https://a.manga/1.html",
                "https://b.manga/1.html", "https://c.manga/1.html"}

\* urlparse(url).netloc
Netloc(u) ==
    CASE u \in {PlaceholderUrl, "https://example.manga/1.html"} -> "example.manga"
      [] u \in {"https://a.manga", "https://a.manga/1.html"} -> "a.manga"
      [] u \in {"https://b.manga", "https://b.manga/1.html"} -> "b.manga"
      [] u = "https://c.manga/1.html" -> "c.manga"
      [] OTHER -> ""

\* The domains requests are made for: those of the base URLs and one that no
\* spider has.
Domains == {Netloc(u) : u \in BaseUrls} \cup {"c.manga"}

\* What the parser class of a spider class can be: a BaseParserMother
\* subclass whose chapter parser is implemented ("ok"), is left unset
\* ("unset") or is a class of another role ("other"), its two other parsers
\* being implemented; or a class that is no BaseParserMother and takes the
\* two arguments ("not_mother").
ParserKinds == {"ok", "unset", "other", "not_mother"}

\* What the find_engine of a spider class can be: a BaseFindEngine subclass
\* or a class that is none.
FindEngineKinds == {"ok", "other"}

\* A spider class: its BASE_URL, its parser class and its find_engine.
SpiderClasses ==
    [base_url : BaseUrls, parser : ParserKinds, find_engine : FindEngineKinds]

\* `self.parser = parser(self.BASE_URL, self.features)`: the exception the
\* parser class raises, "mother" for a BaseParserMother, "object" for what a
\* class that is no BaseParserMother makes.
SpiderParser(cls) ==
    IF cls.parser = "not_mother"
    THEN "object"
    ELSE ParserMotherInit([r \in Roles |-> IF r = "chapter" THEN cls.parser ELSE "ok"])

\* _test_args without the test of BASE_URL.
TestArgsNoUrl(cls) ==
    CASE SpiderParser(cls) # "mother" -> "TypeError"
      [] cls.find_engine # "ok" -> "TypeError"
      [] OTHER -> "none"

\* _test_args, reached once self.parser is made: what it raises, "none" when
\* it returns.
TestArgs(cls) ==
    CASE cls.base_url = PlaceholderUrl -> "NotImplementedError"
      [] SpiderParser(cls) # "mother" -> "TypeError"
      [] cls.find_engine # "ok" -> "TypeError"
      [] OTHER -> "none"

\* self.engine: the RequestManager passed as session, else a new one.
SpiderEngine(kind, made) ==
    IF kind = "manager" THEN GivenManager ELSE made + 1

\* No spider: the constructor call raised.
NoSpider == [cls |-> 0, base_url |-> "", engine |-> 0]

\* Spider(session = session, **spider_config.model_dump()) for the class at
\* position i: the parser is made first and its exception leaves the
\* constructor; then _test_args runs and its exception does; then the engine
\* is set.  The exception raised, or the spider.
SpiderInit(i, cls, kind, made) ==
    LET raised == IF SpiderParser(cls) \notin {"mother", "object"}
                  THEN SpiderParser(cls)
                  ELSE TestArgs(cls)
    IN  IF raised # "none"
        THEN [raised |-> raised, spider |-> NoSpider]
        ELSE [raised |-> "none",
              spider |-> [cls |-> i, base_url |-> cls.base_url,
                          engine |-> SpiderEngine(kind, made)]]

\* A loop body that appends whatever the constructor call left.
LoadedAnyway(ls, res) == Append(ls, res.spider)

\* try: spider = Spider(..) / except Exception: log / else: append
Loaded(ls, res) ==
    IF res.raised # "none" THEN ls ELSE Append(ls, res.spider)

RECURSIVE FirstSpider(_, _, _)
\* for spider in self._loaded_spider: if .. == domen: return .. ; 0 when the
\* loop ends without a match.
FirstSpider(ls, domain, k) ==
    IF k > Len(ls) THEN 0
    ELSE IF Netloc(ls[k].base_url) = domain THEN k
    ELSE FirstSpider(ls, domain, k + 1)

InitReg ==
    /\ IdleFetch /\ IdleFind /\ IdleAgg /\ IdlePace /\ IdleDetail /\ IdleCache /\ IdleMother
    /\ session_kind \in {"session", "manager"}
    /\ \E n \in 0..MaxSpiders : spiders \in [1..n -> SpiderClasses]
    /\ spider_i = 1
    /\ loaded_spider = <<>>
    /\ load_failed = {}
    /\ load_error = <<>>
    /\ next_engine = 0
    /\ mpc = "init"
    /\ inflight = {}
    /\ routed = NoRoute

\* One turn of the loop of MangaService.__init__.
LoadSpider ==
    /\ mpc = "init"
    /\ spider_i <= Len(spiders)
    /\ LET res == SpiderInit(spider_i, spiders[spider_i], session_kind, next_engine) IN
        /\ loaded_spider' = Loaded(loaded_spider, res)
        /\ load_failed' = IF res.raised # "none"
                          THEN load_failed \cup {spider_i} ELSE load_failed
        /\ load_error' = Append(load_error, res.raised)
        /\ next_engine' = IF res.raised = "none" /\ res.spider.engine # GivenManager
                          THEN next_engine + 1 ELSE next_engine
    /\ spider_i' = spider_i + 1
    /\ UNCHANGED <<session_kind, spiders, mpc, inflight, routed>>
    /\ UNCHANGED <<fetchVars, findVars, aggVars, paceVars, detailVars, cacheVars, motherVars>>

\* The end of MangaService.__init__: SpiderError when nothing was loaded.
LoadDone ==
    /\ mpc = "init"
    /\ spider_i > Len(spiders)
    /\ mpc' = IF loaded_spider = <<>> THEN "SpiderError" ELSE "ready"
    /\ UNCHANGED <<session_kind, spiders, spider_i, loaded_spider, load_failed, load_error,
                   next_engine, inflight, routed>>
    /\ UNCHANGED <<fetchVars, findVars, aggVars, paceVars, detailVars, cacheVars, motherVars>>

\* The methods of the service that take a URL, and those that take a site.
UrlOps == {"get_manga", "get_chapter"}
SiteOps == {"find_manga", "find_manga_genres", "get_genres"}
ServiceOps == UrlOps \cup SiteOps

\* What a method can be called with.
Args(op) == IF op \in UrlOps THEN RequestUrls ELSE Domains

\* A service that compares its argument as it is with the spider's domain.
RequestDomainAsGiven(op, arg) == arg
\* What is compared with the spider's domain: `urlparse(url).netloc` in
\* get_manga and get_chapter, `site` in the other methods.
RequestDomain(op, arg) == IF op \in UrlOps THEN Netloc(arg) ELSE arg

\* What a method returns after the loop when no spider matched.
NoMatch(op) == IF op = "get_genres" THEN "empty" ELSE "absent"

\* get_manga / get_chapter / find_manga / find_manga_genres / get_genres of
\* the service, up to its return or to the spider's request entering its
\* engine.
RouteRequest(op, arg) ==
    /\ mpc = "ready"
    /\ LET domain == RequestDomain(op, arg)
           k == FirstSpider(loaded_spider, domain, 1)
       IN
        /\ routed' = [op |-> op, arg |-> arg, domain |-> domain, spider |-> k,
                      ret |-> IF k = 0 THEN NoMatch(op) ELSE "spider"]
        /\ inflight' = IF k = 0 THEN inflight ELSE inflight \cup {k}
    /\ UNCHANGED <<session_kind, spiders, spider_i, loaded_spider, load_failed, load_error,
                   next_engine, mpc>>
    /\ UNCHANGED <<fetchVars, findVars, aggVars, paceVars, detailVars, cacheVars, motherVars>>

\* The request of loaded spider k leaves its engine.
RequestDone(k) ==
    /\ k \in inflight
    /\ inflight' = inflight \ {k}
    /\ UNCHANGED <<session_kind, spiders, spider_i, loaded_spider, load_failed, load_error,
                   next_engine, mpc, routed>>
    /\ UNCHANGED <<fetchVars, findVars, aggVars, paceVars, detailVars, cacheVars, motherVars>>

NextReg ==
    \/ LoadSpider
    \/ LoadDone
    \/ \E op \in ServiceOps : \E arg \in Args(op) : RouteRequest(op, arg)
    \/ \E k \in 1..MaxSpiders : RequestDone(k)

SpecReg == InitReg /\ [][NextReg]_vars

(***************************************************************************)
(* Claims about the service, checked under SpecReg.                        *)
(***************************************************************************)

LoadedIdx == 1..Len(loaded_spider)

\* The loaded spiders whose requests hold slots of the engine e.
Occupants(e) == {k \in inflight : loaded_spider[k].engine = e}

\* C18: no two loaded spiders have the same engine, so the slots of a
\* spider's engine are held by that spider's requests only.
C18_NoSharedFetchClient ==
    /\ \A j, k \in LoadedIdx :
           j # k => loaded_spider[j].engine # loaded_spider[k].engine
    /\ \A k \in LoadedIdx : Occupants(loaded_spider[k].engine) \subseteq {k}

\* The exceptions the construction of a spider raises.
ConfigErrors == {"NotImplementedError", "AttributeError", "TypeError"}

\* C19: a class whose construction raised, in the making of its parser or
\* in _test_args, is not among the loaded spiders and no request is routed
\* to it; a loaded spider is of a class with an overridden BASE_URL, a parser
\* that is a BaseParserMother and a find_engine that is a BaseFindEngine; a
\* service that loaded nothing raises SpiderError and routes nothing, and a
\* service that is ready has a spider.
C19_FailedSpiderNeverLoaded ==
    /\ Len(load_error) = spider_i - 1
    /\ load_failed = {p \in 1..Len(load_error) : load_error[p] # "none"}
    /\ \A p \in load_failed : load_error[p] \in ConfigErrors
    /\ \A k \in LoadedIdx :
           /\ loaded_spider[k].cls \in 1..Len(load_error)
           /\ loaded_spider[k].cls \notin load_failed
           /\ spiders[loaded_spider[k].cls] \in
                  [base_url : BaseUrls \ {PlaceholderUrl}, parser : {"ok"},
                   find_engine : {"ok"}]
    /\ \A p \in 1..Len(load_error) :
           spiders[p].parser \in {"unset", "other", "not_mother"} => p \in load_failed
    /\ Len(loaded_spider) + Cardinality(load_failed) = spider_i - 1
    /\ routed.spider # 0 =>
           /\ routed.spider \in LoadedIdx
           /\ loaded_spider[routed.spider].cls \notin load_failed
    /\ mpc = "ready" => loaded_spider # <<>>
    /\ (mpc # "init" /\ loaded_spider = <<>>) => mpc = "SpiderError"
    /\ mpc = "SpiderError" => (routed = NoRoute /\ inflight = {})

\* C19 witness: a class of a real site whose parser class leaves a role
\* unset raised AttributeError at its construction; the service is ready
\* with another spider, and a request for that site found no spider.
C19_Witness ==
    /\ mpc = "ready"
    /\ \E p \in load_failed :
           /\ spiders[p].base_url # PlaceholderUrl
           /\ spiders[p].parser = "unset"
           /\ load_error[p] = "AttributeError"
           /\ routed.domain = Netloc(spiders[p].base_url)
           /\ routed.spider = 0

\* C20: the construction of a spider of a class whose BASE_URL is the
\* placeholder raises: NotImplementedError from _test_args when its parser
\* could be made, else the exception of the parser class; so no loaded
\* spider has the placeholder URL and a request for the placeholder's domain
\* finds no spider.
C20_PlaceholderNeverConstructed ==
    /\ \A p \in 1..Len(load_error) :
           spiders[p].base_url = PlaceholderUrl =>
               /\ p \in load_failed
               /\ load_error[p] \in ConfigErrors
               /\ spiders[p].parser \in {"ok", "not_mother"} =>
                      load_error[p] = "NotImplementedError"
               /\ spiders[p].parser = "unset" => load_error[p] = "AttributeError"
               /\ spiders[p].parser = "other" => load_error[p] = "TypeError"
    /\ \A k \in LoadedIdx : loaded_spider[k].base_url # PlaceholderUrl
    /\ routed.domain = Netloc(PlaceholderUrl) => routed.spider = 0

\* C20 witness: a class that has the placeholder URL and is right in all
\* else raised NotImplementedError, the service is ready with another
\* spider, and a request for the placeholder's domain has been made.
C20_Witness ==
    /\ mpc = "ready"
    /\ \E p \in load_failed :
           /\ spiders[p] = [base_url |-> PlaceholderUrl, parser |-> "ok",
                            find_engine |-> "ok"]
           /\ load_error[p] = "NotImplementedError"
    /\ routed.domain = Netloc(PlaceholderUrl)

\* C21: a mother one of whose three parsers is not an implementation of its
\* role is never constructed (its constructor raises), and a constructed
\* mother has an implementation of each role.
C21_RolesImplementedOrRaises ==
    /\ (built # "new" /\ \E r \in Roles : roles[r] # "ok") =>
           built \in {"TypeError", "AttributeError"}
    /\ built = "mother" => \A r \in Roles : roles[r] = "ok"
    /\ served # "none" => (built = "mother" /\ roles[served] = "ok")

C21_Witness ==
    /\ roles = [r \in Roles |-> IF r = "chapter" THEN "other" ELSE "ok"]
    /\ built = "TypeError"

\* The positions in _loaded_spider of the spiders whose BASE_URL has the
\* host a request with this method and argument is for.
Matching(op, arg) ==
    {k \in LoadedIdx :
        Netloc(loaded_spider[k].base_url) = IF op \in UrlOps THEN Netloc(arg) ELSE arg}

\* C36: a request goes to the first loaded spider whose BASE_URL has the
\* host of the request's URL, or the site given; when there is none the
\* method returns None, get_genres an empty list, and no spider gets a
\* request; a spider gets a request only when it is the one found.
C36_RoutedToFirstMatch ==
    [][/\ routed'.op # "none" =>
              LET m == Matching(routed'.op, routed'.arg) IN
              IF m = {}
              THEN /\ routed'.spider = 0
                   /\ routed'.ret = IF routed'.op = "get_genres" THEN "empty" ELSE "absent"
                   /\ routed' # routed => inflight' = inflight
              ELSE /\ routed'.spider \in m
                   /\ \A j \in m : routed'.spider <= j
                   /\ routed'.ret = "spider"
       /\ \A k \in inflight' \ inflight :
              /\ routed'.spider = k
              /\ k \in Matching(routed'.op, routed'.arg)]_vars

\* C36 witness: two spiders of the same host are loaded, and get_chapter for
\* a URL on that host went to the first of them, the only one with a request
\* in flight.
C36_Witness ==
    /\ Len(loaded_spider) = 2
    /\ loaded_spider[1].base_url = loaded_spider[2].base_url
    /\ routed.op = "get_chapter"
    /\ routed.arg = "https://a.manga/1.html"
    /\ routed.spider = 1
    /\ inflight = {1}

====
